---- MODULE Spec2Model ----
(***************************************************************************)
(* Curriculum engine of multi_agent_rl_infra: the oracle validation state  *)
(* machine (src/src/oracle.py), the template task generator                *)
(* (src/src/generator.py) and the pool manager (src/src/curriculum.py).    *)
(*                                                                         *)
(* Python strings are sequences of one-character strings, so that          *)
(* str.lower, str.strip and the substring test are computed and not        *)
(* assumed.  An f-string is the tuple of its parts.  None is "None".       *)
(***************************************************************************)
EXTENDS Integers, Sequences, FiniteSets, TLC

\* None in an Optional[int] field
None == -1

\* results of a call: a returned object, a returned None, a raised exception
Return(obj) == [kind |-> "object", obj |-> obj]
ReturnNone == [kind |-> "None"]
Raise(exc) == [kind |-> "raise", exc |-> exc]

\* ------------------------------------------------------------------------
\* Bounds of the exploration
\* ------------------------------------------------------------------------
\* largest difficulty passed to build_pool / largest template difficulty validated alone
MaxDifficulty == 2
\* largest tasks_per_difficulty passed to build_pool
MaxTasksPerDifficulty == 2
\* largest max_retries passed to build_pool
MaxRetries == 1
\* largest max_steps passed to a stand-alone Oracle.validate
MaxSteps == 4
\* largest target passed to the chaining search and to a stand-alone generate
MaxTarget == 7
\* largest count (actions, inference calls, baselines) passed to RewardCalculator.compute
MaxCount == 4
\* largest max_inference_calls_buffer of an EvaluationConfig
MaxBuffer == 1

\* ------------------------------------------------------------------------
\* Python str operations
\* ------------------------------------------------------------------------
UpperCase == <<"A","B","C","D","E","F","G","H","I","J","K","L","M","N","O","P","Q","R","S","T","U","V","W","X","Y","Z">>
LowerCase == <<"a","b","c","d","e","f","g","h","i","j","k","l","m","n","o","p","q","r","s","t","u","v","w","x","y","z">>

\* str.lower on one character
LowerChar(c) ==
  IF \E i \in 1..26 : UpperCase[i] = c
  THEN LowerCase[CHOOSE i \in 1..26 : UpperCase[i] = c]
  ELSE c

\* str.lower
lower(s) == [i \in 1..Len(s) |-> LowerChar(s[i])]

RECURSIVE lstrip(_)
lstrip(s) == IF s # <<>> /\ Head(s) = " " THEN lstrip(Tail(s)) ELSE s

RECURSIVE rstrip(_)
rstrip(s) == IF s # <<>> /\ s[Len(s)] = " " THEN rstrip(SubSeq(s, 1, Len(s) - 1)) ELSE s

\* str.strip (the strings of the model carry blanks as their only whitespace)
strip(s) == rstrip(lstrip(s))

\* Python's  sub in text
contains(text, sub) ==
  \E i \in 1..(Len(text) - Len(sub) + 1) : SubSeq(text, i, i + Len(sub) - 1) = sub

\* dict.get(key, default) on a record
Get(d, key, default) == IF key \in DOMAIN d THEN d[key] ELSE default

\* ------------------------------------------------------------------------
\* generator.py: the template catalog
\* ------------------------------------------------------------------------
SITE_ACTION_TEMPLATES ==
  (* site "signup" *)
  ( <<"s","i","g","n","u","p">> :> (
      1 :> <<
        (* Click the Sign Up button to trigger validation (will show email required error) *)
        [ actions |-> <<
            [action |-> "click", element |-> <<"S","i","g","n"," ","U","p">>]
          >>,
          task |-> <<"C","l","i","c","k"," ","t","h","e"," ","S","i","g","n"," ","U","p"," ","b","u","t","t","o","n"," ","t","o"," ","t","r","i","g","g","e","r"," ","v","a","l","i","d","a","t","i","o","n"," ","(","w","i","l","l"," ","s","h","o","w"," ","e","m","a","i","l"," ","r","e","q","u","i","r","e","d"," ","e","r","r","o","r",")">>,
          success_hints |-> <<<<"E","m","a","i","l"," ","m","u","s","t"," ","c","o","n","t","a","i","n">>>> ]
      >> @@
      2 :> <<
        (* Enter email 'test@example.com' and click Sign Up (will show password required) *)
        [ actions |-> <<
            [action |-> "type", element |-> <<"E","m","a","i","l">>, value |-> <<"t","e","s","t","@","e","x","a","m","p","l","e",".","c","o","m">>],
            [action |-> "click", element |-> <<"S","i","g","n"," ","U","p">>]
          >>,
          task |-> <<"E","n","t","e","r"," ","e","m","a","i","l"," ","'","t","e","s","t","@","e","x","a","m","p","l","e",".","c","o","m","'"," ","a","n","d"," ","c","l","i","c","k"," ","S","i","g","n"," ","U","p"," ","(","w","i","l","l"," ","s","h","o","w"," ","p","a","s","s","w","o","r","d"," ","r","e","q","u","i","r","e","d",")">>,
          success_hints |-> <<<<"P","a","s","s","w","o","r","d"," ","m","u","s","t"," ","b","e"," ","a","t"," ","l","e","a","s","t">>>> ],
        (* Enter a short password 'pass' and click Sign Up (will show password length error) *)
        [ actions |-> <<
            [action |-> "type", element |-> <<"P","a","s","s","w","o","r","d">>, value |-> <<"p","a","s","s">>],
            [action |-> "click", element |-> <<"S","i","g","n"," ","U","p">>]
          >>,
          task |-> <<"E","n","t","e","r"," ","a"," ","s","h","o","r","t"," ","p","a","s","s","w","o","r","d"," ","'","p","a","s","s","'"," ","a","n","d"," ","c","l","i","c","k"," ","S","i","g","n"," ","U","p"," ","(","w","i","l","l"," ","s","h","o","w"," ","p","a","s","s","w","o","r","d"," ","l","e","n","g","t","h"," ","e","r","r","o","r",")">>,
          success_hints |-> <<<<"P","a","s","s","w","o","r","d"," ","m","u","s","t"," ","b","e"," ","a","t"," ","l","e","a","s","t">>>> ]
      >> @@
      3 :> <<
        (* Fill in email 'test@example.com' and password 'password123', then click Sign Up (will show confirm password error) *)
        [ actions |-> <<
            [action |-> "type", element |-> <<"E","m","a","i","l">>, value |-> <<"t","e","s","t","@","e","x","a","m","p","l","e",".","c","o","m">>],
            [action |-> "type", element |-> <<"P","a","s","s","w","o","r","d">>, value |-> <<"p","a","s","s","w","o","r","d","1","2","3">>],
            [action |-> "click", element |-> <<"S","i","g","n"," ","U","p">>]
          >>,
          task |-> <<"F","i","l","l"," ","i","n"," ","e","m","a","i","l"," ","'","t","e","s","t","@","e","x","a","m","p","l","e",".","c","o","m","'"," ","a","n","d"," ","p","a","s","s","w","o","r","d"," ","'","p","a","s","s","w","o","r","d","1","2","3","'",","," ","t","h","e","n"," ","c","l","i","c","k"," ","S","i","g","n"," ","U","p"," ","(","w","i","l","l"," ","s","h","o","w"," ","c","o","n","f","i","r","m"," ","p","a","s","s","w","o","r","d"," ","e","r","r","o","r",")">>,
          success_hints |-> <<<<"P","a","s","s","w","o","r","d"," ","a","n","d"," ","C","o","n","f","i","r","m"," ","P","a","s","s","w","o","r","d"," ","m","u","s","t"," ","m","a","t","c","h">>>> ]
      >> @@
      4 :> <<
        (* Create an account with email 'test@example.com', password 'password123', confirm password, and click Sign Up *)
        [ actions |-> <<
            [action |-> "type", element |-> <<"E","m","a","i","l">>, value |-> <<"t","e","s","t","@","e","x","a","m","p","l","e",".","c","o","m">>],
            [action |-> "type", element |-> <<"P","a","s","s","w","o","r","d">>, value |-> <<"p","a","s","s","w","o","r","d","1","2","3">>],
            [action |-> "type", element |-> <<"C","o","n","f","i","r","m"," ","P","a","s","s","w","o","r","d">>, value |-> <<"p","a","s","s","w","o","r","d","1","2","3">>],
            [action |-> "click", element |-> <<"S","i","g","n"," ","U","p">>]
          >>,
          task |-> <<"C","r","e","a","t","e"," ","a","n"," ","a","c","c","o","u","n","t"," ","w","i","t","h"," ","e","m","a","i","l"," ","'","t","e","s","t","@","e","x","a","m","p","l","e",".","c","o","m","'",","," ","p","a","s","s","w","o","r","d"," ","'","p","a","s","s","w","o","r","d","1","2","3","'",","," ","c","o","n","f","i","r","m"," ","p","a","s","s","w","o","r","d",","," ","a","n","d"," ","c","l","i","c","k"," ","S","i","g","n"," ","U","p">>,
          success_hints |-> <<<<"A","c","c","o","u","n","t"," ","c","r","e","a","t","e","d"," ","s","u","c","c","e","s","s","f","u","l","l","y">>>> ]
      >> @@
      5 :> <<
        (* Enter email 'user@example.com', password 'securepass', wrong confirm password, click Sign Up to see error, then fix confirm password *)
        [ actions |-> <<
            [action |-> "type", element |-> <<"E","m","a","i","l">>, value |-> <<"u","s","e","r","@","e","x","a","m","p","l","e",".","c","o","m">>],
            [action |-> "type", element |-> <<"P","a","s","s","w","o","r","d">>, value |-> <<"s","e","c","u","r","e","p","a","s","s">>],
            [action |-> "type", element |-> <<"C","o","n","f","i","r","m"," ","P","a","s","s","w","o","r","d">>, value |-> <<"w","r","o","n","g","p","a","s","s">>],
            [action |-> "click", element |-> <<"S","i","g","n"," ","U","p">>],
            [action |-> "type", element |-> <<"C","o","n","f","i","r","m"," ","P","a","s","s","w","o","r","d">>, value |-> <<"s","e","c","u","r","e","p","a","s","s">>]
          >>,
          task |-> <<"E","n","t","e","r"," ","e","m","a","i","l"," ","'","u","s","e","r","@","e","x","a","m","p","l","e",".","c","o","m","'",","," ","p","a","s","s","w","o","r","d"," ","'","s","e","c","u","r","e","p","a","s","s","'",","," ","w","r","o","n","g"," ","c","o","n","f","i","r","m"," ","p","a","s","s","w","o","r","d",","," ","c","l","i","c","k"," ","S","i","g","n"," ","U","p"," ","t","o"," ","s","e","e"," ","e","r","r","o","r",","," ","t","h","e","n"," ","f","i","x"," ","c","o","n","f","i","r","m"," ","p","a","s","s","w","o","r","d">>,
          success_hints |-> <<<<"P","a","s","s","w","o","r","d"," ","a","n","d"," ","C","o","n","f","i","r","m"," ","P","a","s","s","w","o","r","d"," ","m","u","s","t"," ","m","a","t","c","h">>, <<"s","e","c","u","r","e","p","a","s","s">>>> ]
      >>
  ) ) @@
  (* site "todo" *)
  ( <<"t","o","d","o">> :> (
      1 :> <<
        (* Click the Add Todo button (it will show an error for empty input) *)
        [ actions |-> <<
            [action |-> "click", element |-> <<"A","d","d"," ","T","o","d","o">>]
          >>,
          task |-> <<"C","l","i","c","k"," ","t","h","e"," ","A","d","d"," ","T","o","d","o"," ","b","u","t","t","o","n"," ","(","i","t"," ","w","i","l","l"," ","s","h","o","w"," ","a","n"," ","e","r","r","o","r"," ","f","o","r"," ","e","m","p","t","y"," ","i","n","p","u","t",")">>,
          success_hints |-> <<<<"e","m","p","t","y">>, <<"e","r","r","o","r">>, <<"c","a","n","n","o","t">>>> ]
      >> @@
      2 :> <<
        (* Add a new todo item with the text 'Buy groceries' *)
        [ actions |-> <<
            [action |-> "type", element |-> <<"N","e","w"," ","T","o","d","o">>, value |-> <<"B","u","y"," ","g","r","o","c","e","r","i","e","s">>],
            [action |-> "click", element |-> <<"A","d","d"," ","T","o","d","o">>]
          >>,
          task |-> <<"A","d","d"," ","a"," ","n","e","w"," ","t","o","d","o"," ","i","t","e","m"," ","w","i","t","h"," ","t","h","e"," ","t","e","x","t"," ","'","B","u","y"," ","g","r","o","c","e","r","i","e","s","'">>,
          success_hints |-> <<<<"B","u","y"," ","g","r","o","c","e","r","i","e","s">>, <<"t","o","d","o">>, <<"T","o","t","a","l">>>> ]
      >> @@
      3 :> <<
        (* Add a todo item called 'First task' and then mark it as complete *)
        [ actions |-> <<
            [action |-> "type", element |-> <<"N","e","w"," ","T","o","d","o">>, value |-> <<"F","i","r","s","t"," ","t","a","s","k">>],
            [action |-> "click", element |-> <<"A","d","d"," ","T","o","d","o">>],
            [action |-> "click", element |-> <<"C","o","m","p","l","e","t","e">>]
          >>,
          task |-> <<"A","d","d"," ","a"," ","t","o","d","o"," ","i","t","e","m"," ","c","a","l","l","e","d"," ","'","F","i","r","s","t"," ","t","a","s","k","'"," ","a","n","d"," ","t","h","e","n"," ","m","a","r","k"," ","i","t"," ","a","s"," ","c","o","m","p","l","e","t","e">>,
          success_hints |-> <<<<"C","o","m","p","l","e","t","e","d">>, <<"1">>, <<"F","i","r","s","t"," ","t","a","s","k">>>> ]
      >> @@
      4 :> <<
        (* Add two todo items: 'Task one' and 'Task two' *)
        [ actions |-> <<
            [action |-> "type", element |-> <<"N","e","w"," ","T","o","d","o">>, value |-> <<"T","a","s","k"," ","o","n","e">>],
            [action |-> "click", element |-> <<"A","d","d"," ","T","o","d","o">>],
            [action |-> "type", element |-> <<"N","e","w"," ","T","o","d","o">>, value |-> <<"T","a","s","k"," ","t","w","o">>],
            [action |-> "click", element |-> <<"A","d","d"," ","T","o","d","o">>]
          >>,
          task |-> <<"A","d","d"," ","t","w","o"," ","t","o","d","o"," ","i","t","e","m","s",":"," ","'","T","a","s","k"," ","o","n","e","'"," ","a","n","d"," ","'","T","a","s","k"," ","t","w","o","'">>,
          success_hints |-> <<<<"T","a","s","k"," ","o","n","e">>, <<"T","a","s","k"," ","t","w","o">>, <<"T","o","t","a","l",":"," ","2">>>> ]
      >> @@
      5 :> <<
        (* Add 'Important task', mark it complete, then add 'Another task' *)
        [ actions |-> <<
            [action |-> "type", element |-> <<"N","e","w"," ","T","o","d","o">>, value |-> <<"I","m","p","o","r","t","a","n","t"," ","t","a","s","k">>],
            [action |-> "click", element |-> <<"A","d","d"," ","T","o","d","o">>],
            [action |-> "click", element |-> <<"C","o","m","p","l","e","t","e">>],
            [action |-> "type", element |-> <<"N","e","w"," ","T","o","d","o">>, value |-> <<"A","n","o","t","h","e","r"," ","t","a","s","k">>],
            [action |-> "click", element |-> <<"A","d","d"," ","T","o","d","o">>]
          >>,
          task |-> <<"A","d","d"," ","'","I","m","p","o","r","t","a","n","t"," ","t","a","s","k","'",","," ","m","a","r","k"," ","i","t"," ","c","o","m","p","l","e","t","e",","," ","t","h","e","n"," ","a","d","d"," ","'","A","n","o","t","h","e","r"," ","t","a","s","k","'">>,
          success_hints |-> <<<<"I","m","p","o","r","t","a","n","t"," ","t","a","s","k">>, <<"A","n","o","t","h","e","r"," ","t","a","s","k">>, <<"C","o","m","p","l","e","t","e","d",":"," ","1">>>> ]
      >>
  ) ) @@
  (* site "cart" *)
  ( <<"c","a","r","t">> :> (
      1 :> <<
        (* Click the Checkout button (cart is empty, will show error) *)
        [ actions |-> <<
            [action |-> "click", element |-> <<"C","h","e","c","k","o","u","t">>]
          >>,
          task |-> <<"C","l","i","c","k"," ","t","h","e"," ","C","h","e","c","k","o","u","t"," ","b","u","t","t","o","n"," ","(","c","a","r","t"," ","i","s"," ","e","m","p","t","y",","," ","w","i","l","l"," ","s","h","o","w"," ","e","r","r","o","r",")">>,
          success_hints |-> <<<<"e","m","p","t","y">>, <<"e","r","r","o","r">>, <<"m","u","s","t"," ","n","o","t">>>> ]
      >> @@
      2 :> <<
        (* Add Product A to cart and proceed to checkout *)
        [ actions |-> <<
            [action |-> "click", element |-> <<"A","d","d"," ","t","o"," ","C","a","r","t"," ","P","r","o","d","u","c","t"," ","A">>],
            [action |-> "click", element |-> <<"C","h","e","c","k","o","u","t">>]
          >>,
          task |-> <<"A","d","d"," ","P","r","o","d","u","c","t"," ","A"," ","t","o"," ","c","a","r","t"," ","a","n","d"," ","p","r","o","c","e","e","d"," ","t","o"," ","c","h","e","c","k","o","u","t">>,
          success_hints |-> <<<<"c","o","n","f","i","r","m","e","d">>, <<"O","r","d","e","r">>, <<"t","h","a","n","k">>>> ]
      >> @@
      3 :> <<
        (* Add Product A and Product B to cart, then checkout *)
        [ actions |-> <<
            [action |-> "click", element |-> <<"A","d","d"," ","t","o"," ","C","a","r","t"," ","P","r","o","d","u","c","t"," ","A">>],
            [action |-> "click", element |-> <<"A","d","d"," ","t","o"," ","C","a","r","t"," ","P","r","o","d","u","c","t"," ","B">>],
            [action |-> "click", element |-> <<"C","h","e","c","k","o","u","t">>]
          >>,
          task |-> <<"A","d","d"," ","P","r","o","d","u","c","t"," ","A"," ","a","n","d"," ","P","r","o","d","u","c","t"," ","B"," ","t","o"," ","c","a","r","t",","," ","t","h","e","n"," ","c","h","e","c","k","o","u","t">>,
          success_hints |-> <<<<"c","o","n","f","i","r","m","e","d">>, <<"O","r","d","e","r">>, <<"t","h","a","n","k">>>> ]
      >> @@
      4 :> <<
        (* Add Product A to cart, apply coupon code SAVE10, then checkout *)
        [ actions |-> <<
            [action |-> "click", element |-> <<"A","d","d"," ","t","o"," ","C","a","r","t"," ","P","r","o","d","u","c","t"," ","A">>],
            [action |-> "type", element |-> <<"C","o","u","p","o","n"," ","C","o","d","e">>, value |-> <<"S","A","V","E","1","0">>],
            [action |-> "click", element |-> <<"A","p","p","l","y"," ","C","o","u","p","o","n">>],
            [action |-> "click", element |-> <<"C","h","e","c","k","o","u","t">>]
          >>,
          task |-> <<"A","d","d"," ","P","r","o","d","u","c","t"," ","A"," ","t","o"," ","c","a","r","t",","," ","a","p","p","l","y"," ","c","o","u","p","o","n"," ","c","o","d","e"," ","S","A","V","E","1","0",","," ","t","h","e","n"," ","c","h","e","c","k","o","u","t">>,
          success_hints |-> <<<<"c","o","n","f","i","r","m","e","d">>, <<"d","i","s","c","o","u","n","t">>, <<"1","0","%">>>> ]
      >> @@
      5 :> <<
        (* Add Product A and Product B to cart, apply coupon SAVE10, then checkout *)
        [ actions |-> <<
            [action |-> "click", element |-> <<"A","d","d"," ","t","o"," ","C","a","r","t"," ","P","r","o","d","u","c","t"," ","A">>],
            [action |-> "click", element |-> <<"A","d","d"," ","t","o"," ","C","a","r","t"," ","P","r","o","d","u","c","t"," ","B">>],
            [action |-> "type", element |-> <<"C","o","u","p","o","n"," ","C","o","d","e">>, value |-> <<"S","A","V","E","1","0">>],
            [action |-> "click", element |-> <<"A","p","p","l","y"," ","C","o","u","p","o","n">>],
            [action |-> "click", element |-> <<"C","h","e","c","k","o","u","t">>]
          >>,
          task |-> <<"A","d","d"," ","P","r","o","d","u","c","t"," ","A"," ","a","n","d"," ","P","r","o","d","u","c","t"," ","B"," ","t","o"," ","c","a","r","t",","," ","a","p","p","l","y"," ","c","o","u","p","o","n"," ","S","A","V","E","1","0",","," ","t","h","e","n"," ","c","h","e","c","k","o","u","t">>,
          success_hints |-> <<<<"c","o","n","f","i","r","m","e","d">>, <<"d","i","s","c","o","u","n","t">>, <<"O","r","d","e","r">>>> ]
      >>
  ) ) @@
  (* site "settings" *)
  ( <<"s","e","t","t","i","n","g","s">> :> (
      1 :> <<
        (* Toggle Email Alerts on (no save) *)
        [ actions |-> <<
            [action |-> "click", element |-> <<"E","m","a","i","l"," ","A","l","e","r","t","s">>]
          >>,
          task |-> <<"T","o","g","g","l","e"," ","E","m","a","i","l"," ","A","l","e","r","t","s"," ","o","n"," ","(","n","o"," ","s","a","v","e",")">>,
          success_hints |-> <<>> ]
      >> @@
      2 :> <<
        (* Enable Dark Mode and click Save *)
        [ actions |-> <<
            [action |-> "click", element |-> <<"D","a","r","k"," ","M","o","d","e">>],
            [action |-> "click", element |-> <<"S","a","v","e">>]
          >>,
          task |-> <<"E","n","a","b","l","e"," ","D","a","r","k"," ","M","o","d","e"," ","a","n","d"," ","c","l","i","c","k"," ","S","a","v","e">>,
          success_hints |-> <<<<"S","e","t","t","i","n","g","s"," ","s","a","v","e","d"," ","s","u","c","c","e","s","s","f","u","l","l","y">>>> ]
      >> @@
      3 :> <<
        (* Enable SMS Alerts and Dark Mode, then click Save *)
        [ actions |-> <<
            [action |-> "click", element |-> <<"S","M","S"," ","A","l","e","r","t","s">>],
            [action |-> "click", element |-> <<"D","a","r","k"," ","M","o","d","e">>],
            [action |-> "click", element |-> <<"S","a","v","e">>]
          >>,
          task |-> <<"E","n","a","b","l","e"," ","S","M","S"," ","A","l","e","r","t","s"," ","a","n","d"," ","D","a","r","k"," ","M","o","d","e",","," ","t","h","e","n"," ","c","l","i","c","k"," ","S","a","v","e">>,
          success_hints |-> <<<<"S","e","t","t","i","n","g","s"," ","s","a","v","e","d"," ","s","u","c","c","e","s","s","f","u","l","l","y">>>> ]
      >> @@
      4 :> <<
        (* Enable SMS Alerts, Dark Mode, change language to Spanish, and click Save *)
        [ actions |-> <<
            [action |-> "click", element |-> <<"S","M","S"," ","A","l","e","r","t","s">>],
            [action |-> "click", element |-> <<"D","a","r","k"," ","M","o","d","e">>],
            [action |-> "select", element |-> <<"L","a","n","g","u","a","g","e">>, value |-> <<"S","p","a","n","i","s","h">>],
            [action |-> "click", element |-> <<"S","a","v","e">>]
          >>,
          task |-> <<"E","n","a","b","l","e"," ","S","M","S"," ","A","l","e","r","t","s",","," ","D","a","r","k"," ","M","o","d","e",","," ","c","h","a","n","g","e"," ","l","a","n","g","u","a","g","e"," ","t","o"," ","S","p","a","n","i","s","h",","," ","a","n","d"," ","c","l","i","c","k"," ","S","a","v","e">>,
          success_hints |-> <<<<"S","e","t","t","i","n","g","s"," ","s","a","v","e","d"," ","s","u","c","c","e","s","s","f","u","l","l","y">>>> ]
      >> @@
      5 :> <<
        (* Toggle Email Alerts, enable SMS Alerts and Dark Mode, set language to English, then Save *)
        [ actions |-> <<
            [action |-> "click", element |-> <<"E","m","a","i","l"," ","A","l","e","r","t","s">>],
            [action |-> "click", element |-> <<"S","M","S"," ","A","l","e","r","t","s">>],
            [action |-> "click", element |-> <<"D","a","r","k"," ","M","o","d","e">>],
            [action |-> "select", element |-> <<"L","a","n","g","u","a","g","e">>, value |-> <<"E","n","g","l","i","s","h">>],
            [action |-> "click", element |-> <<"S","a","v","e">>]
          >>,
          task |-> <<"T","o","g","g","l","e"," ","E","m","a","i","l"," ","A","l","e","r","t","s",","," ","e","n","a","b","l","e"," ","S","M","S"," ","A","l","e","r","t","s"," ","a","n","d"," ","D","a","r","k"," ","M","o","d","e",","," ","s","e","t"," ","l","a","n","g","u","a","g","e"," ","t","o"," ","E","n","g","l","i","s","h",","," ","t","h","e","n"," ","S","a","v","e">>,
          success_hints |-> <<<<"S","e","t","t","i","n","g","s"," ","s","a","v","e","d"," ","s","u","c","c","e","s","s","f","u","l","l","y">>>> ]
      >>
  ) ) @@
  (* site "wizard" *)
  ( <<"w","i","z","a","r","d">> :> (
      1 :> <<
        (* Click the Next button (will show validation errors) *)
        [ actions |-> <<
            [action |-> "click", element |-> <<"N","e","x","t">>]
          >>,
          task |-> <<"C","l","i","c","k"," ","t","h","e"," ","N","e","x","t"," ","b","u","t","t","o","n"," ","(","w","i","l","l"," ","s","h","o","w"," ","v","a","l","i","d","a","t","i","o","n"," ","e","r","r","o","r","s",")">>,
          success_hints |-> <<<<"r","e","q","u","i","r","e","d">>, <<"e","r","r","o","r">>, <<"F","i","r","s","t"," ","n","a","m","e">>>> ]
      >> @@
      2 :> <<
        (* Enter first name 'John' and click Next (will show last name required) *)
        [ actions |-> <<
            [action |-> "type", element |-> <<"F","i","r","s","t"," ","N","a","m","e">>, value |-> <<"J","o","h","n">>],
            [action |-> "click", element |-> <<"N","e","x","t">>]
          >>,
          task |-> <<"E","n","t","e","r"," ","f","i","r","s","t"," ","n","a","m","e"," ","'","J","o","h","n","'"," ","a","n","d"," ","c","l","i","c","k"," ","N","e","x","t"," ","(","w","i","l","l"," ","s","h","o","w"," ","l","a","s","t"," ","n","a","m","e"," ","r","e","q","u","i","r","e","d",")">>,
          success_hints |-> <<<<"r","e","q","u","i","r","e","d">>, <<"L","a","s","t"," ","n","a","m","e">>, <<"e","r","r","o","r">>>> ]
      >> @@
      3 :> <<
        (* Complete step 1 by entering first name 'John' and last name 'Doe', then proceed to step 2 *)
        [ actions |-> <<
            [action |-> "type", element |-> <<"F","i","r","s","t"," ","N","a","m","e">>, value |-> <<"J","o","h","n">>],
            [action |-> "type", element |-> <<"L","a","s","t"," ","N","a","m","e">>, value |-> <<"D","o","e">>],
            [action |-> "click", element |-> <<"N","e","x","t">>]
          >>,
          task |-> <<"C","o","m","p","l","e","t","e"," ","s","t","e","p"," ","1"," ","b","y"," ","e","n","t","e","r","i","n","g"," ","f","i","r","s","t"," ","n","a","m","e"," ","'","J","o","h","n","'"," ","a","n","d"," ","l","a","s","t"," ","n","a","m","e"," ","'","D","o","e","'",","," ","t","h","e","n"," ","p","r","o","c","e","e","d"," ","t","o"," ","s","t","e","p"," ","2">>,
          success_hints |-> <<<<"C","o","n","t","a","c","t">>, <<"E","m","a","i","l">>, <<"S","t","e","p"," ","2">>>> ]
      >> @@
      4 :> <<
        (* Complete step 1 with name 'John Doe', go to step 2, and enter email *)
        [ actions |-> <<
            [action |-> "type", element |-> <<"F","i","r","s","t"," ","N","a","m","e">>, value |-> <<"J","o","h","n">>],
            [action |-> "type", element |-> <<"L","a","s","t"," ","N","a","m","e">>, value |-> <<"D","o","e">>],
            [action |-> "click", element |-> <<"N","e","x","t">>],
            [action |-> "type", element |-> <<"E","m","a","i","l">>, value |-> <<"j","o","h","n","@","e","x","a","m","p","l","e",".","c","o","m">>]
          >>,
          task |-> <<"C","o","m","p","l","e","t","e"," ","s","t","e","p"," ","1"," ","w","i","t","h"," ","n","a","m","e"," ","'","J","o","h","n"," ","D","o","e","'",","," ","g","o"," ","t","o"," ","s","t","e","p"," ","2",","," ","a","n","d"," ","e","n","t","e","r"," ","e","m","a","i","l">>,
          success_hints |-> <<<<"j","o","h","n","@","e","x","a","m","p","l","e",".","c","o","m">>, <<"C","o","n","t","a","c","t">>, <<"P","h","o","n","e">>>> ]
      >> @@
      5 :> <<
        (* Complete steps 1 and 2 of the wizard with name 'John Doe' and email 'john@example.com' *)
        [ actions |-> <<
            [action |-> "type", element |-> <<"F","i","r","s","t"," ","N","a","m","e">>, value |-> <<"J","o","h","n">>],
            [action |-> "type", element |-> <<"L","a","s","t"," ","N","a","m","e">>, value |-> <<"D","o","e">>],
            [action |-> "click", element |-> <<"N","e","x","t">>],
            [action |-> "type", element |-> <<"E","m","a","i","l">>, value |-> <<"j","o","h","n","@","e","x","a","m","p","l","e",".","c","o","m">>],
            [action |-> "click", element |-> <<"N","e","x","t">>]
          >>,
          task |-> <<"C","o","m","p","l","e","t","e"," ","s","t","e","p","s"," ","1"," ","a","n","d"," ","2"," ","o","f"," ","t","h","e"," ","w","i","z","a","r","d"," ","w","i","t","h"," ","n","a","m","e"," ","'","J","o","h","n"," ","D","o","e","'"," ","a","n","d"," ","e","m","a","i","l"," ","'","j","o","h","n","@","e","x","a","m","p","l","e",".","c","o","m","'">>,
          success_hints |-> <<<<"R","e","v","i","e","w">>, <<"J","o","h","n">>, <<"D","o","e">>, <<"j","o","h","n","@","e","x","a","m","p","l","e",".","c","o","m">>>> ]
      >> @@
      6 :> <<
        (* Complete the entire wizard: enter name 'John Doe', email 'john@example.com', and submit *)
        [ actions |-> <<
            [action |-> "type", element |-> <<"F","i","r","s","t"," ","N","a","m","e">>, value |-> <<"J","o","h","n">>],
            [action |-> "type", element |-> <<"L","a","s","t"," ","N","a","m","e">>, value |-> <<"D","o","e">>],
            [action |-> "click", element |-> <<"N","e","x","t">>],
            [action |-> "type", element |-> <<"E","m","a","i","l">>, value |-> <<"j","o","h","n","@","e","x","a","m","p","l","e",".","c","o","m">>],
            [action |-> "click", element |-> <<"N","e","x","t">>],
            [action |-> "click", element |-> <<"S","u","b","m","i","t">>]
          >>,
          task |-> <<"C","o","m","p","l","e","t","e"," ","t","h","e"," ","e","n","t","i","r","e"," ","w","i","z","a","r","d",":"," ","e","n","t","e","r"," ","n","a","m","e"," ","'","J","o","h","n"," ","D","o","e","'",","," ","e","m","a","i","l"," ","'","j","o","h","n","@","e","x","a","m","p","l","e",".","c","o","m","'",","," ","a","n","d"," ","s","u","b","m","i","t">>,
          success_hints |-> <<<<"s","u","c","c","e","s","s">>, <<"s","u","b","m","i","t","t","e","d">>, <<"t","h","a","n","k">>>> ]
      >>
  ) )

\* ------------------------------------------------------------------------
\* Inputs of the exploration: sites, page texts, model answers
\* ------------------------------------------------------------------------
SiteSignup == <<"s","i","g","n","u","p">>
SiteSettings == <<"s","e","t","t","i","n","g","s">>
\* a site without templates
SiteBlog == <<"b","l","o","g">>

\* the sites lists passed to build_pool
SiteLists == { <<SiteSignup, SiteBlog>> }

\* visible texts the pages show: one without any hint
PagePlain == <<"W","e","l","c","o","m","e">>
\* a page that shows the messages of the signup and settings forms, in upper case
PageMessages == <<"E","M","A","I","L"," ","M","U","S","T"," ","C","O","N","T","A","I","N"," ","@","."," ","P","A","S","S","W","O","R","D"," ","M","U","S","T"," ","B","E"," ","A","T"," ","L","E","A","S","T"," ","8"," ","C","H","A","R","A","C","T","E","R","S","."," ","S","E","T","T","I","N","G","S"," ","S","A","V","E","D"," ","S","U","C","C","E","S","S","F","U","L","L","Y",".">>
PageTexts == { PagePlain, PageMessages }

\* token counts reported by generate_with_tokens
TokenCounts == { 7 }

\* identifiers produced by str(uuid.uuid4())[:8]
UUIDs == { "0a1b2c3d" }

\* texts of a model-written task; DescLikeTemplate is the description of the signup
\* template of difficulty 1 in lower case
HintSaved == <<"S","A","V","E","D">>
DescFresh == <<"O","p","e","n"," ","t","h","e"," ","b","l","o","g">>
DescLikeTemplate == <<"c","l","i","c","k"," ","t","h","e"," ","s","i","g","n"," ","u","p"," ","b","u","t","t","o","n"," ","t","o"," ","t","r","i","g","g","e","r"," ","v","a","l","i","d","a","t","i","o","n"," ","(","w","i","l","l"," ","s","h","o","w"," ","e","m","a","i","l"," ","r","e","q","u","i","r","e","d"," ","e","r","r","o","r",")">>
ElemOther == <<"C","a","n","c","e","l">>

\* a response that is not a JSON document
NotJson == [not_json |-> TRUE]

\* responses of the generation service to the task-generation prompt
TaskResponses ==
  { NotJson,
    [description |-> DescFresh, success_criteria |-> <<"criteria">>],
    [description |-> DescFresh, success_criteria |-> <<"criteria">>,
     success_hints |-> <<HintSaved>>,
     estimated_replans |-> 0, replan_reasoning |-> <<"reason">>],
    [description |-> DescLikeTemplate, success_criteria |-> <<"criteria">>,
     estimated_replans |-> 1, replan_reasoning |-> <<"reason">>] }

\* ------------------------------------------------------------------------
\* models.py
\* ------------------------------------------------------------------------
\* Action.from_dict / Action(action=..., element=..., value=data.get("value", ""))
Action(data) == [action |-> data.action, element |-> data.element, value |-> Get(data, "value", <<>>)]

\* the fields of the Task dataclass
TaskFields ==
  { "id", "site", "description", "success_criteria", "estimated_replans",
    "replan_reasoning", "min_actions", "oracle_tokens", "validated" }
TaskRequired ==
  { "id", "site", "description", "success_criteria", "estimated_replans", "replan_reasoning" }

\* the generated Task.__init__: a keyword that is not a field is a TypeError
Task(kwargs) ==
  IF DOMAIN kwargs \subseteq TaskFields /\ TaskRequired \subseteq DOMAIN kwargs
  THEN Return(kwargs @@ [min_actions |-> None, oracle_tokens |-> None, validated |-> FALSE])
  ELSE Raise("TypeError")

SuccessCriteria(description, hints) == [description |-> description, hints |-> hints]

\* Task.expected_inference_calls
expected_inference_calls(t) == IF t.estimated_replans > 1 THEN t.estimated_replans ELSE 1

\* Task.to_dict
to_dict(t) ==
  [ id |-> t.id, site |-> t.site, description |-> t.description,
    success_criteria |-> [description |-> t.success_criteria.description,
                          hints |-> t.success_criteria.hints],
    estimated_replans |-> t.estimated_replans,
    replan_reasoning |-> t.replan_reasoning,
    min_actions |-> t.min_actions, oracle_tokens |-> t.oracle_tokens,
    validated |-> t.validated ]

\* the attribute expected_actions, set on the instance by the generator only
HasExpectedActions(t) == "expected_actions" \in DOMAIN t

\* ------------------------------------------------------------------------
\* generator.py: TaskGenerator
\* ------------------------------------------------------------------------
\* the elements of a list, as a set
Elems(seq) == { seq[i] : i \in DOMAIN seq }

\* the same set without lower(): descriptions compared as written
existing_descriptions_cased(site, existing_tasks) ==
  { strip(t.description) : t \in { e \in Elems(existing_tasks) : e.site = site } }

\* { t.description.strip().lower() for t in existing_tasks if t.site == site }
existing_descriptions(site, existing_tasks) ==
  { lower(strip(t.description)) : t \in { e \in Elems(existing_tasks) : e.site = site } }

\* the Task built from one template, with the attribute expected_actions set on it
TemplateTask(id, site, target_difficulty, template) ==
  LET made == Task([ id |-> id, site |-> site, description |-> template.task,
                     success_criteria |->
                       SuccessCriteria(<<"Task requires exactly ", target_difficulty,
                                         " actions: ", template.task>>,
                                       Get(template, "success_hints", <<>>)),
                     estimated_replans |-> IF target_difficulty <= 2 THEN 1 ELSE 2,
                     replan_reasoning |-> <<"Template-based task with ", target_difficulty,
                                            " predefined actions">> ])
  IN  Return(made.obj @@ [expected_actions |-> template.actions])

\* TaskGenerator._generate_from_template: the results random.choice and uuid4 allow
_generate_from_template(site, target_difficulty, existing_tasks) ==
  IF site \notin DOMAIN SITE_ACTION_TEMPLATES THEN { ReturnNone }
  ELSE LET site_templates == SITE_ACTION_TEMPLATES[site] IN
    IF target_difficulty \notin DOMAIN site_templates THEN { ReturnNone }
    ELSE LET templates == site_templates[target_difficulty]
             used == existing_descriptions(site, existing_tasks)
             available_templates ==
               SelectSeq(templates, LAMBDA tmpl : lower(strip(tmpl.task)) \notin used)
         IN  IF available_templates = <<>> THEN { ReturnNone }
             ELSE { TemplateTask(id, site, target_difficulty, available_templates[i]) :
                      id \in UUIDs, i \in DOMAIN available_templates }

RECURSIVE find_combos(_, _, _, _, _, _)
\* the lists find_combos appends to combinations, over every random.choice of a template
find_combos(site_templates, max_templates, remaining, current, start_diff, depth) ==
  IF remaining = 0 /\ Len(current) >= 2 THEN { current }
  ELSE IF remaining < 0 \/ depth >= max_templates THEN {}
  ELSE UNION { UNION { find_combos(site_templates, max_templates, remaining - diff,
                                   Append(current, <<diff, site_templates[diff][k]>>),
                                   diff, depth + 1) :
                       k \in DOMAIN site_templates[diff] } :
               diff \in { x \in DOMAIN site_templates : x <= remaining } }

\* min(available_difficulties)
MinOf(S) == CHOOSE m \in S : \A x \in S : m <= x

\* _find_template_combinations with the search one level deeper
_find_template_combinations_deeper(site_templates, target, max_templates) ==
  find_combos(site_templates, max_templates + 1, target, <<>>, MinOf(DOMAIN site_templates), 0)

\* TaskGenerator._find_template_combinations: every combination a call can return
_find_template_combinations(site_templates, target, max_templates) ==
  find_combos(site_templates, max_templates, target, <<>>, MinOf(DOMAIN site_templates), 0)

StrFirst == <<"F","i","r","s","t",","," ">>
StrThen == <<"T","h","e","n",","," ">>
StrFinally == <<"F","i","n","a","l","l","y",","," ">>
StrDotThen == <<"."," ","T","h","e","n",","," ">>
StrDot == <<".">>
StrDotSpace == <<"."," ">>

RECURSIVE join(_, _)
\* sep.join(parts)
join(sep, parts) ==
  IF parts = <<>> THEN <<>>
  ELSE IF Len(parts) = 1 THEN parts[1]
  ELSE parts[1] \o sep \o join(sep, Tail(parts))

\* TaskGenerator._build_chained_description
_build_chained_description(descriptions) ==
  IF Len(descriptions) = 2
  THEN StrFirst \o lower(descriptions[1]) \o StrDotThen \o lower(descriptions[2]) \o StrDot
  ELSE LET parts == [i \in DOMAIN descriptions |->
                       IF i = 1 THEN StrFirst \o lower(descriptions[i])
                       ELSE IF i = Len(descriptions) THEN StrFinally \o lower(descriptions[i])
                       ELSE StrThen \o lower(descriptions[i])]
       IN  join(StrDotSpace, parts) \o StrDot

RECURSIVE unique(_, _)
\* the hints in order of first occurrence (seen_hints / unique_hints)
unique(hints, seen_hints) ==
  IF hints = <<>> THEN <<>>
  ELSE IF Head(hints) \in seen_hints THEN unique(Tail(hints), seen_hints)
  ELSE <<Head(hints)>> \o unique(Tail(hints), seen_hints \cup {Head(hints)})

\* only the last of the lists
concat_last(lists) == IF lists = <<>> THEN <<>> ELSE lists[Len(lists)]

RECURSIVE concat(_)
\* the concatenation of a list of lists (list.extend in a loop)
concat(lists) == IF lists = <<>> THEN <<>> ELSE Head(lists) \o concat(Tail(lists))

\* lines 446-473 of _generate_by_chaining: the hints of the components merged in
\* stage order, each kept where it first occurs, and of more than 4 the last 4
ChainedHints(combination) ==
  LET combined_hints ==
        concat([i \in DOMAIN combination |-> Get(combination[i][2], "success_hints", <<>>)])
      deduped == unique(combined_hints, {})
  IN  IF Len(deduped) > 4 THEN SubSeq(deduped, Len(deduped) - 3, Len(deduped)) ELSE deduped

\* the Task(...) call of _generate_by_chaining for one combination
ChainedTask(id, site, target_difficulty, combination) ==
  LET combined_actions == concat([i \in DOMAIN combination |-> combination[i][2].actions])
      descriptions == [i \in DOMAIN combination |-> combination[i][2].task]
      template_ids == [i \in DOMAIN combination |-> <<site, "-d", combination[i][1]>>]
      unique_hints == ChainedHints(combination)
      made == Task([ id |-> id, site |-> site,
                     description |-> _build_chained_description(descriptions),
                     success_criteria |->
                       SuccessCriteria(<<"Complete ", Len(combination),
                                         " subtasks in sequence (", target_difficulty,
                                         " total actions)">>, unique_hints),
                     estimated_replans |-> Len(combination),
                     replan_reasoning |->
                       <<"Chained from ", Len(combination), " templates: ",
                         [i \in DOMAIN combination |-> <<"d", combination[i][1]>>]>>,
                     is_chained |-> TRUE,
                     chained_from |-> template_ids ])
  IN  IF made.kind = "raise" THEN made
      ELSE Return(made.obj @@ [expected_actions |-> combined_actions])

\* the difficulties of a combination, in order
Shape(combination) == [i \in DOMAIN combination |-> combination[i][1]]

\* TaskGenerator._generate_by_chaining: the first combination of the shuffled list whose
\* description is not taken is built; a call's list holds one combination per shape
_generate_by_chaining(site, target_difficulty, existing_tasks) ==
  IF site \notin DOMAIN SITE_ACTION_TEMPLATES THEN { ReturnNone }
  ELSE
    LET valid_combinations ==
          _find_template_combinations(SITE_ACTION_TEMPLATES[site], target_difficulty, 3)
        used == { lower(strip(t.description)) :
                    t \in { e \in Elems(existing_tasks) : e.site = site } }
        taken(c) ==
          lower(strip(_build_chained_description([i \in DOMAIN c |-> c[i][2].task]))) \in used
        fresh == { c \in valid_combinations : ~taken(c) }
    IN  IF valid_combinations = {} THEN { ReturnNone }
        ELSE { ChainedTask(id, site, target_difficulty, c) : id \in UUIDs, c \in fresh }
             \cup
             ( IF \A c \in valid_combinations :
                    \E c2 \in valid_combinations : Shape(c2) = Shape(c) /\ taken(c2)
               THEN { ReturnNone } ELSE {} )

\* TaskGenerator._parse_response: the parsed object, or the exception raised
_parse_response(response) ==
  IF response = NotJson THEN Raise("JSONDecodeError")
  ELSE IF { "description", "success_criteria", "estimated_replans", "replan_reasoning" }
            \subseteq DOMAIN response
       THEN Return(response) ELSE Raise("ValueError")

\* TaskGenerator._generate_from_llm: env.reset is not guarded, a parse failure is
_generate_from_llm(site, target_difficulty, existing_tasks) ==
  { Raise("PageTimeoutError") }
  \cup
  { LET parsed == _parse_response(response) IN
      IF parsed.kind = "raise" THEN ReturnNone
      ELSE Task([ id |-> id, site |-> site,
                  description |-> parsed.obj.description,
                  success_criteria |->
                    SuccessCriteria(parsed.obj.success_criteria,
                                    Get(parsed.obj, "success_hints", <<>>)),
                  estimated_replans |-> parsed.obj.estimated_replans,
                  replan_reasoning |-> parsed.obj.replan_reasoning ]) :
    id \in UUIDs, response \in TaskResponses }

\* TaskGenerator.generate with use_templates = True: first success wins
generate(site, target_difficulty, existing_tasks) ==
  LET from_template == _generate_from_template(site, target_difficulty, existing_tasks)
      chained == _generate_by_chaining(site, target_difficulty, existing_tasks)
      from_llm == _generate_from_llm(site, target_difficulty, existing_tasks)
  IN  (from_template \ { ReturnNone })
      \cup ( IF ReturnNone \in from_template
             THEN (chained \ { ReturnNone })
                  \cup ( IF ReturnNone \in chained THEN from_llm ELSE {} )
             ELSE {} )

\* TaskGenerator.generate with use_templates = True, with the strategies it went
\* through: a stage is entered only when the stages before it returned None
generate_stages(site, target_difficulty, existing_tasks) ==
  LET from_template == _generate_from_template(site, target_difficulty, existing_tasks)
      chained == _generate_by_chaining(site, target_difficulty, existing_tasks)
      from_llm == _generate_from_llm(site, target_difficulty, existing_tasks)
  IN  { [ret |-> ret, stages |-> <<"template">>] : ret \in from_template \ { ReturnNone } }
      \cup
      ( IF ReturnNone \in from_template
        THEN { [ret |-> ret, stages |-> <<"template", "chaining">>] :
                 ret \in chained \ { ReturnNone } }
             \cup
             ( IF ReturnNone \in chained
               THEN { [ret |-> ret, stages |-> <<"template", "chaining", "llm">>] :
                        ret \in from_llm }
               ELSE {} )
        ELSE {} )

\* ------------------------------------------------------------------------
\* State
\* ------------------------------------------------------------------------
VARIABLES
  pool,             \* TaskCurriculum.pool: difficulty -> list of Task
  pool_keys,        \* the difficulties of pool in the dict's insertion order
  pc,               \* position in build_pool: "idle", "for", "while", "validating", "raised";
                    \* "alone" when Oracle.validate is called on its own
  args,             \* the arguments of the running build_pool call
  di,               \* index of the difficulty being built
  seen_keys,        \* build_pool's seen_keys
  attempts,         \* build_pool's attempts
  opc,              \* position in Oracle.validate: "idle", "reset", "loop", "step",
                    \* "returned", "raised"
  task,             \* build_pool's candidate (its local task): the task being validated,
                    \* or the duplicate it has just skipped
  max_steps,        \* validate's max_steps
  step,             \* iterations of validate's for loop completed
  state,            \* the PageState validate holds
  total_tokens,     \* validate's total_tokens
  actions_taken,    \* validate's actions_taken
  inference_calls,  \* validate's inference_calls
  result,           \* the OracleResult validate returned
  raised,           \* the exception that left validate or build_pool, "" if none
  env,              \* what the collaborators saw during the current validate call:
                    \* resets, whether the page loaded, steps requested, steps
                    \* executed, generation calls, the tokens they reported, and
                    \* whether the last answer was {"action": "done"}
  file,             \* the pool record in the cache directory: a document, or Absent
  call,             \* the last operation called on the curriculum or the generator:
                    \* its name, its arguments and what it returned
  episode           \* the frame of the running EvaluationPipeline._run_episode call: its
                    \* position, its locals, the agent's counters and what the
                    \* collaborators saw

vars == << pool, pool_keys, pc, args, di, seen_keys, attempts, opc, task, max_steps, step,
           state, total_tokens, actions_taken, inference_calls, result, raised, env,
           file, call, episode >>

curriculum_vars == << pool, pool_keys, pc, args, di, seen_keys, attempts >>
oracle_vars == << opc, task, max_steps, step, state, total_tokens, actions_taken,
                  inference_calls, result, raised, env >>
store_vars == << file, call >>

\* ------------------------------------------------------------------------
\* oracle.py
\* ------------------------------------------------------------------------
\* OracleResult.__init__ with its defaults
OracleResult(kwargs) ==
  kwargs @@ [ steps_taken |-> 0, tokens_used |-> 0, reason |-> "",
              difficulty_match |-> TRUE, expected_steps |-> 0, inference_calls |-> 0 ]

\* OracleResult.is_valid_for_curriculum
is_valid_for_curriculum(r, tolerance) ==
  IF ~r.valid THEN FALSE
  ELSE IF r.expected_steps = 0 THEN TRUE
  ELSE (IF r.steps_taken >= r.expected_steps THEN r.steps_taken - r.expected_steps
        ELSE r.expected_steps - r.steps_taken) <= tolerance

\* Oracle._check_success
_check_success(st, t) ==
  /\ t.success_criteria.hints # <<>>
  /\ LET text_lower == lower(st.visible_text)
     IN  \E i \in DOMAIN t.success_criteria.hints :
            contains(text_lower, lower(t.success_criteria.hints[i]))

\* the JSON objects the generation service may answer to the oracle's prompt: the
\* task's own next action while it has one and another action after that, done, an
\* object without element, or text that is not JSON
ActionResponses(t, taken) ==
  { NotJson, [action |-> "done"], [action |-> "click"],
    IF HasExpectedActions(t) /\ Len(taken) < Len(t.expected_actions)
    THEN t.expected_actions[Len(taken) + 1]
    ELSE [action |-> "click", element |-> ElemOther] }

\* lines 178-201: the answer is one the parsing block of _predict_action fails on:
\* json.loads raises, or data["action"] or data["element"] raises KeyError
Unparsable(response) ==
  \/ response = NotJson
  \/ /\ Get(response, "action", "") # "done"
     /\ ("action" \notin DOMAIN response \/ "element" \notin DOMAIN response)

\* _predict_action filling in what the answer lacks instead of giving up
_predict_action_lenient(response) ==
  IF response = NotJson THEN ReturnNone
  ELSE IF Get(response, "action", "") = "done" THEN ReturnNone
  ELSE Return(Action(response @@ [action |-> "click", element |-> ElemOther]))

\* Oracle._predict_action after the service answered: the action, or None
_predict_action(response) ==
  IF response = NotJson THEN ReturnNone
  ELSE IF Get(response, "action", "") = "done" THEN ReturnNone
  ELSE IF "action" \notin DOMAIN response \/ "element" \notin DOMAIN response THEN ReturnNone
  ELSE Return(Action(response))

\* the OracleResult of a failed reset (line 79)
LoadFailedResult ==
  OracleResult([valid |-> FALSE, reason |-> "Page load failed"])

\* StepFailedResult without the inference_calls keyword
StepFailedResult_nocalls(reason, taken, tokens, calls) ==
  OracleResult([ valid |-> FALSE, steps_taken |-> Len(taken), tokens_used |-> tokens,
                 reason |-> reason ])

\* the OracleResult of a failed env.step (lines 102-108 and 110-116)
StepFailedResult(reason, taken, tokens, calls) ==
  OracleResult([ valid |-> FALSE, steps_taken |-> Len(taken), tokens_used |-> tokens,
                 reason |-> reason, inference_calls |-> calls ])

\* the OracleResult after the loop (lines 142-148)
BudgetResult(taken, tokens, calls) ==
  OracleResult([ valid |-> FALSE, steps_taken |-> Len(taken), tokens_used |-> tokens,
                 reason |-> "Max steps exceeded without completion",
                 inference_calls |-> calls ])

\* SuccessResult with difficulty_match left at its default
SuccessResult_always(expected, steps, tokens, calls) ==
  OracleResult([ valid |-> TRUE, steps_taken |-> steps, tokens_used |-> tokens,
                 reason |-> "Task completed successfully",
                 expected_steps |-> expected, inference_calls |-> calls ])

\* the OracleResult of a success (lines 130-139)
SuccessResult(expected, steps, tokens, calls) ==
  OracleResult([ valid |-> TRUE, steps_taken |-> steps, tokens_used |-> tokens,
                 reason |-> "Task completed successfully",
                 difficulty_match |-> (expected = 0) \/ (steps = expected),
                 expected_steps |-> expected, inference_calls |-> calls ])

\* SuppressEarlySuccess without the suppression
SuppressEarlySuccess_never(expected, steps) == FALSE

\* line 126: a hint match before the known number of actions is not yet a success
SuppressEarlySuccess(expected, steps) == expected > 0 /\ steps < expected

\* InRange with one iteration too many
InRange_inclusive(n, bound) == n <= bound

\* line 85: for step in range(max_steps)
InRange(n, bound) == n < bound

\* ValidateReset with the PageTimeoutError swallowed: the loop starts on the old state
ValidateReset_swallow ==
  /\ opc = "reset"
  /\ \/ \E text \in PageTexts :
          /\ env' = [env EXCEPT !.resets = @ + 1, !.loaded = TRUE]
          /\ state' = [visible_text |-> text]
     \/ /\ env' = [env EXCEPT !.resets = @ + 1]
        /\ UNCHANGED state
  /\ total_tokens' = 0
  /\ actions_taken' = <<>>
  /\ inference_calls' = 0
  /\ step' = 0
  /\ opc' = "loop"
  /\ UNCHANGED << task, max_steps, raised, result >>
  /\ UNCHANGED curriculum_vars
  /\ UNCHANGED store_vars
  /\ UNCHANGED episode

\* lines 74-83: env.reset, and the return on PageTimeoutError
ValidateReset ==
  /\ opc = "reset"
  /\ \/ \E text \in PageTexts :
          /\ env' = [env EXCEPT !.resets = @ + 1, !.loaded = TRUE]
          /\ state' = [visible_text |-> text]
          /\ total_tokens' = 0
          /\ actions_taken' = <<>>
          /\ inference_calls' = 0
          /\ step' = 0
          /\ opc' = "loop"
          /\ UNCHANGED result
     \/ /\ env' = [env EXCEPT !.resets = @ + 1]
        /\ result' = LoadFailedResult
        /\ opc' = "returned"
        /\ UNCHANGED << state, total_tokens, actions_taken, inference_calls, step >>
  /\ UNCHANGED << task, max_steps, raised >>
  /\ UNCHANGED curriculum_vars
  /\ UNCHANGED store_vars
  /\ UNCHANGED episode

\* line 188: the answer is the completion signal
SignalsDone(response) == Get(response, "action", "") = "done"

\* ValidatePredict with None skipping the iteration instead of leaving the loop
ValidatePredict_continue ==
  /\ opc = "loop"
  /\ InRange(step, max_steps)
  /\ \E tokens \in TokenCounts, response \in ActionResponses(task, actions_taken) :
       LET action == _predict_action(response) IN
       /\ env' = [env EXCEPT !.calls = @ + 1, !.tokens = @ + tokens,
                              !.done = SignalsDone(response),
                              !.malformed = Unparsable(response)]
       /\ total_tokens' = total_tokens + tokens
       /\ inference_calls' = inference_calls + 1
       /\ IF action = ReturnNone
          THEN /\ step' = step + 1
               /\ opc' = "loop"
               /\ UNCHANGED actions_taken
          ELSE /\ actions_taken' = Append(actions_taken, action.obj)
               /\ opc' = "step"
               /\ UNCHANGED step
  /\ UNCHANGED << task, max_steps, state, raised, result >>
  /\ UNCHANGED curriculum_vars
  /\ UNCHANGED store_vars
  /\ UNCHANGED episode

\* lines 85-95: one prediction; None leaves the loop and returns (lines 141-148)
ValidatePredict ==
  /\ opc = "loop"
  /\ InRange(step, max_steps)
  /\ \E tokens \in TokenCounts, response \in ActionResponses(task, actions_taken) :
       LET action == _predict_action(response) IN
       /\ env' = [env EXCEPT !.calls = @ + 1, !.tokens = @ + tokens,
                              !.done = SignalsDone(response),
                              !.malformed = Unparsable(response)]
       /\ total_tokens' = total_tokens + tokens
       /\ inference_calls' = inference_calls + 1
       /\ IF action = ReturnNone
          THEN /\ result' = BudgetResult(actions_taken, total_tokens', inference_calls')
               /\ opc' = "returned"
               /\ UNCHANGED actions_taken
          ELSE /\ actions_taken' = Append(actions_taken, action.obj)
               /\ opc' = "step"
               /\ UNCHANGED result
  /\ UNCHANGED << task, max_steps, step, state, raised >>
  /\ UNCHANGED curriculum_vars
  /\ UNCHANGED store_vars
  /\ UNCHANGED episode

\* lines 97-139: env.step, its two failures, and the success check
ValidateStep ==
  /\ opc = "step"
  /\ \/ \E reason \in { "Element not found", "Page timeout during action" } :
          /\ env' = [env EXCEPT !.steps = @ + 1]
          /\ result' = StepFailedResult(reason, actions_taken, total_tokens, inference_calls)
          /\ opc' = "returned"
          /\ UNCHANGED << state, step, raised >>
     \/ \E text \in PageTexts :
          /\ env' = [env EXCEPT !.steps = @ + 1, !.executed = @ + 1]
          /\ state' = [visible_text |-> text]
          /\ IF ~_check_success(state', task)
             THEN /\ step' = step + 1
                  /\ opc' = "loop"
                  /\ UNCHANGED << result, raised >>
             ELSE IF ~HasExpectedActions(task)
             THEN \* line 120 reads an attribute the instance does not have
                  /\ raised' = "AttributeError"
                  /\ opc' = "raised"
                  /\ UNCHANGED << result, step >>
             ELSE LET expected == Len(task.expected_actions)
                      steps == Len(actions_taken)
                  IN  IF SuppressEarlySuccess(expected, steps)
                      THEN /\ step' = step + 1
                           /\ opc' = "loop"
                           /\ UNCHANGED << result, raised >>
                      ELSE /\ result' = SuccessResult(expected, steps, total_tokens,
                                                      inference_calls)
                           /\ opc' = "returned"
                           /\ UNCHANGED << step, raised >>
  /\ UNCHANGED << task, max_steps, total_tokens, actions_taken, inference_calls >>
  /\ UNCHANGED curriculum_vars
  /\ UNCHANGED store_vars
  /\ UNCHANGED episode

\* lines 141-148: the loop ran max_steps times
ValidateExhausted ==
  /\ opc = "loop"
  /\ ~InRange(step, max_steps)
  /\ result' = BudgetResult(actions_taken, total_tokens, inference_calls)
  /\ opc' = "returned"
  /\ UNCHANGED << task, max_steps, step, state, total_tokens, actions_taken,
                  inference_calls, raised, env >>
  /\ UNCHANGED curriculum_vars
  /\ UNCHANGED store_vars
  /\ UNCHANGED episode

\* ------------------------------------------------------------------------
\* curriculum.py: TaskCurriculum.build_pool
\* ------------------------------------------------------------------------
\* build_pool.normalize_task: the key is computed from Task.to_dict
normalize_task(t) ==
  LET td == to_dict(t)
      desc == lower(strip(Get(td, "description", <<>>)))
      site == lower(strip(Get(td, "site", <<>>)))
      actions == Get(td, "expected_actions", <<>>)
  IN  << site, desc,
         [i \in DOMAIN actions |->
            << Get(actions[i], "action", None),
               lower(strip(Get(actions[i], "element", <<>>))),
               Get(actions[i], "value", <<>>) >>] >>

\* AcceptableDifficulty with the overshoot widened to two
AcceptableDifficulty_wide(difficulty, r) ==
  difficulty <= r.steps_taken /\ r.steps_taken <= difficulty + 2

\* line 97: exact match or an overshoot of one
AcceptableDifficulty(difficulty, r) ==
  difficulty <= r.steps_taken /\ r.steps_taken <= difficulty + 1

\* Admitted with min_actions taken from the task's expected actions
Admitted_expected(t, r) ==
  [t EXCEPT !.min_actions = Len(t.expected_actions), !.oracle_tokens = r.tokens_used,
            !.validated = TRUE]

\* the task as build_pool stores it (lines 98-100)
Admitted(t, r) ==
  [t EXCEPT !.min_actions = r.steps_taken, !.oracle_tokens = r.tokens_used,
            !.validated = TRUE]

NoArgs == [sites |-> <<>>, difficulties |-> <<>>, tasks_per_difficulty |-> 0, max_retries |-> 0]
NoTask == [no_task |-> TRUE]
NoResult == [no_result |-> TRUE]
NoState == [visible_text |-> <<>>]
Absent == [absent |-> TRUE]
NoCall == [op |-> ""]
NoEnv == [resets |-> 0, loaded |-> FALSE, steps |-> 0, executed |-> 0, calls |-> 0, tokens |-> 0,
          done |-> FALSE, malformed |-> FALSE]

\* the Oracle.validate frame before and after a call
OracleIdle ==
  /\ opc' = "idle"
  /\ task' = NoTask
  /\ max_steps' = 0
  /\ step' = 0
  /\ state' = NoState
  /\ total_tokens' = 0
  /\ actions_taken' = <<>>
  /\ inference_calls' = 0
  /\ result' = NoResult
  /\ env' = NoEnv

\* the difficulties lists passed to build_pool: 1..k in ascending order, as the
\* build script passes them
DifficultyLists ==
  { [i \in 1..k |-> i] : k \in 1..MaxDifficulty }

\* a call build_pool(sites, difficulties, tasks_per_difficulty, env, max_retries)
BuildPool ==
  /\ pc = "idle"
  /\ \E s \in SiteLists, ds \in DifficultyLists,
        n \in 1..MaxTasksPerDifficulty, r \in 1..MaxRetries :
       args' = [sites |-> s, difficulties |-> ds, tasks_per_difficulty |-> n,
                max_retries |-> r]
  /\ di' = 1
  /\ pc' = "for"
  /\ call' = [op |-> "build_pool"]
  /\ UNCHANGED << pool, pool_keys, seen_keys, attempts, file >>
  /\ UNCHANGED oracle_vars
  /\ UNCHANGED episode

\* ForDifficulty with the bucket reset at the head of every difficulty
ForDifficulty_reset ==
  /\ pc = "for"
  /\ IF di <= Len(args.difficulties)
     THEN LET difficulty == args.difficulties[di]
          IN  /\ pool' = IF difficulty \in DOMAIN pool
                         THEN [pool EXCEPT ![difficulty] = <<>>]
                         ELSE pool @@ (difficulty :> <<>>)
              /\ pool_keys' = IF difficulty \in DOMAIN pool THEN pool_keys
                              ELSE Append(pool_keys, difficulty)
              /\ seen_keys' = {}
              /\ attempts' = 0
              /\ pc' = "while"
              /\ UNCHANGED << args, di >>
     ELSE /\ pc' = "idle"
          /\ args' = NoArgs
          /\ di' = 0
          /\ seen_keys' = {}
          /\ attempts' = 0
          /\ UNCHANGED << pool, pool_keys >>
  /\ UNCHANGED oracle_vars
  /\ UNCHANGED store_vars
  /\ UNCHANGED episode

\* lines 55-66: the head of the for loop; the call returns after the last difficulty
ForDifficulty ==
  /\ pc = "for"
  /\ IF di <= Len(args.difficulties)
     THEN LET difficulty == args.difficulties[di]
              bucket == IF difficulty \in DOMAIN pool THEN pool[difficulty] ELSE <<>>
          IN  /\ pool' = IF difficulty \in DOMAIN pool THEN pool
                         ELSE pool @@ (difficulty :> <<>>)
              /\ pool_keys' = IF difficulty \in DOMAIN pool THEN pool_keys
                              ELSE Append(pool_keys, difficulty)
              /\ seen_keys' = { normalize_task(t) : t \in Elems(bucket) }
              /\ attempts' = 0
              /\ pc' = "while"
              /\ UNCHANGED << args, di >>
     ELSE /\ pc' = "idle"
          /\ args' = NoArgs
          /\ di' = 0
          /\ seen_keys' = {}
          /\ attempts' = 0
          /\ UNCHANGED << pool, pool_keys >>
  /\ UNCHANGED oracle_vars
  /\ UNCHANGED store_vars
  /\ UNCHANGED episode

\* a step budget of the difficulty itself
StepBudget_single(difficulty) == difficulty

\* line 90: max_steps=difficulty * 2
StepBudget(difficulty) == difficulty * 2

\* a bucket that holds exactly tasks_per_difficulty tasks taking one more
NeedsMore_inclusive(tasks, tasks_per_difficulty) == Len(tasks) <= tasks_per_difficulty

\* line 68: len(self.pool[difficulty]) < tasks_per_difficulty
NeedsMore(tasks, tasks_per_difficulty) == Len(tasks) < tasks_per_difficulty

\* lines 68-91: one evaluation of the while condition and, when it holds, one attempt
\* up to the call of oracle.validate
Attempt ==
  /\ pc = "while"
  /\ LET difficulty == args.difficulties[di]
         max_attempts == args.tasks_per_difficulty * args.max_retries
     IN
     IF NeedsMore(pool[difficulty], args.tasks_per_difficulty) /\ attempts < max_attempts
     THEN
       /\ attempts' = attempts + 1
       /\ \E i \in DOMAIN args.sites :
            LET site == args.sites[i]
                existing_for_site == SelectSeq(pool[difficulty], LAMBDA t : t.site = site)
            IN  \E generated \in generate(site, difficulty, existing_for_site) :
                  IF generated.kind = "raise"
                  THEN /\ pc' = "raised"
                       /\ raised' = generated.exc
                       /\ UNCHANGED << opc, task, max_steps, step, state, total_tokens,
                                       actions_taken, inference_calls, result, env >>
                  ELSE IF generated = ReturnNone
                  THEN /\ pc' = "while"
                       /\ UNCHANGED oracle_vars
                  ELSE IF normalize_task(generated.obj) \in seen_keys
                  THEN /\ pc' = "while"
                       /\ task' = generated.obj
                       /\ UNCHANGED << opc, max_steps, step, state, total_tokens,
                                       actions_taken, inference_calls, result, raised, env >>
                  ELSE /\ pc' = "validating"
                       /\ opc' = "reset"
                       /\ task' = generated.obj
                       /\ max_steps' = StepBudget(difficulty)
                       /\ UNCHANGED << step, state, total_tokens, actions_taken,
                                       inference_calls, result, raised, env >>
       /\ UNCHANGED << pool, pool_keys, args, di, seen_keys >>
     ELSE
       /\ pc' = "for"
       /\ di' = di + 1
       /\ task' = NoTask
       /\ UNCHANGED << pool, pool_keys, args, seen_keys, attempts >>
       /\ UNCHANGED << opc, max_steps, step, state, total_tokens, actions_taken,
                       inference_calls, result, raised, env >>
  /\ UNCHANGED store_vars
  /\ UNCHANGED episode

\* lines 93-108: the decision on the OracleResult
Admit ==
  /\ pc = "validating"
  /\ opc = "returned"
  /\ LET difficulty == args.difficulties[di] IN
       IF result.valid /\ AcceptableDifficulty(difficulty, result)
       THEN /\ pool' = [pool EXCEPT ![difficulty] = Append(@, Admitted(task, result))]
            /\ seen_keys' = seen_keys \cup { normalize_task(task) }
       ELSE UNCHANGED << pool, seen_keys >>
  /\ pc' = "while"
  /\ OracleIdle
  /\ UNCHANGED << pool_keys, args, di, attempts, raised >>
  /\ UNCHANGED store_vars
  /\ UNCHANGED episode

\* an exception raised inside oracle.validate is not caught by build_pool
Propagate ==
  /\ pc = "validating"
  /\ opc = "raised"
  /\ pc' = "raised"
  /\ UNCHANGED << pool, pool_keys, args, di, seen_keys, attempts >>
  /\ UNCHANGED oracle_vars
  /\ UNCHANGED store_vars
  /\ UNCHANGED episode

\* ------------------------------------------------------------------------
\* curriculum.py: sample, save, load, stats
\* ------------------------------------------------------------------------
\* sample with the pick made over the whole pool instead of the bucket
sample_any(p, difficulty) ==
  LET all == UNION { { Return(p[d][i]) : i \in DOMAIN p[d] } : d \in DOMAIN p }
  IN  IF all = {} THEN { ReturnNone } ELSE all

\* TaskCurriculum.sample: what a call can return, over random.choice
sample(p, difficulty) ==
  IF difficulty \notin DOMAIN p \/ p[difficulty] = <<>> THEN { ReturnNone }
  ELSE { Return(p[difficulty][i]) : i \in DOMAIN p[difficulty] }

\* the decimal digits
Digits == << "0", "1", "2", "3", "4", "5", "6", "7", "8", "9" >>

RECURSIVE str(_)
\* str(difficulty) of a non-negative int
str(n) ==
  IF n < 10 THEN << Digits[n + 1] >>
  ELSE str(n \div 10) \o << Digits[(n % 10) + 1] >>

\* the value of one decimal digit
DigitValue(c) == (CHOOSE i \in DOMAIN Digits : Digits[i] = c) - 1

RECURSIVE DecimalValue(_)
\* the value of a string of decimal digits
DecimalValue(s) ==
  IF s = <<>> THEN 0
  ELSE 10 * DecimalValue(SubSeq(s, 1, Len(s) - 1)) + DigitValue(s[Len(s)])

\* int(difficulty_str): surrounding blanks are ignored, anything but digits is a
\* ValueError (the keys of the model carry no sign and no underscore)
int(s) ==
  LET text == strip(s) IN
    IF text = <<>> \/ \E i \in DOMAIN text : text[i] \notin Elems(Digits)
    THEN Raise("ValueError")
    ELSE Return(DecimalValue(text))

\* save.normalize_task_dict
normalize_task_dict(td) ==
  LET desc == lower(strip(Get(td, "description", <<>>)))
      site == lower(strip(Get(td, "site", <<>>)))
      actions == Get(td, "expected_actions", <<>>)
  IN  << site, desc,
         [i \in DOMAIN actions |->
            << Get(actions[i], "action", None),
               lower(strip(Get(actions[i], "element", <<>>))),
               Get(actions[i], "value", <<>>) >>] >>

RECURSIVE SaveTasks(_, _, _)
\* lines 138-145: the inner loop of save over one bucket, seen carried along
SaveTasks(tasks, seen, unique_task_dicts) ==
  IF tasks = <<>> THEN [seen |-> seen, unique_task_dicts |-> unique_task_dicts]
  ELSE LET td == to_dict(Head(tasks))
           key == normalize_task_dict(td)
       IN  IF key \in seen
           THEN SaveTasks(Tail(tasks), seen, unique_task_dicts)
           ELSE SaveTasks(Tail(tasks), seen \cup { key }, Append(unique_task_dicts, td))

RECURSIVE SaveItems(_, _, _, _)
\* lines 135-146: the loop of save over self.pool.items(); deduped_serializable is
\* the list of its items in insertion order
SaveItems(p, keys, seen, deduped_serializable) ==
  IF keys = <<>> THEN deduped_serializable
  ELSE LET difficulty == Head(keys)
           bucket == SaveTasks(p[difficulty], seen, <<>>)
       IN  SaveItems(p, Tail(keys), bucket.seen,
                     Append(deduped_serializable,
                            [key |-> str(difficulty), value |-> bucket.unique_task_dicts]))

\* the document json.dumps writes and json.loads reads back: a JSON object as the
\* list of its items
Document(items) == [items |-> items]

\* Task.from_dict: a missing required key is a KeyError
from_dict(data) ==
  IF \/ ~(TaskRequired \subseteq DOMAIN data)
     \/ "description" \notin DOMAIN data.success_criteria
  THEN Raise("KeyError")
  ELSE Task([ id |-> data.id, site |-> data.site, description |-> data.description,
              success_criteria |->
                SuccessCriteria(data.success_criteria.description,
                                Get(data.success_criteria, "hints", <<>>)),
              estimated_replans |-> data.estimated_replans,
              replan_reasoning |-> data.replan_reasoning,
              min_actions |-> Get(data, "min_actions", None),
              oracle_tokens |-> Get(data, "oracle_tokens", None),
              validated |-> Get(data, "validated", FALSE) ])

RECURSIVE FromDicts(_)
\* line 166: [Task.from_dict(t) for t in tasks_data]
FromDicts(tasks_data) ==
  IF tasks_data = <<>> THEN Return(<<>>)
  ELSE LET first == from_dict(Head(tasks_data)) IN
       IF first.kind = "raise" THEN first
       ELSE LET rest == FromDicts(Tail(tasks_data)) IN
            IF rest.kind = "raise" THEN rest
            ELSE Return(<< first.obj >> \o rest.obj)

RECURSIVE LoadItems(_, _, _)
\* lines 164-166: the loop of load over data.items(), stopped by the first exception;
\* p and keys are self.pool as far as it has been rebuilt
LoadItems(items, p, keys) ==
  IF items = <<>> THEN [ok |-> TRUE, pool |-> p, pool_keys |-> keys]
  ELSE LET difficulty == int(Head(items).key) IN
       IF difficulty.kind = "raise" THEN [ok |-> FALSE, pool |-> p, pool_keys |-> keys]
       ELSE LET tasks == FromDicts(Head(items).value)
                d == difficulty.obj
            IN  IF tasks.kind = "raise"
                THEN [ok |-> FALSE, pool |-> p, pool_keys |-> keys]
                ELSE LoadItems(Tail(items),
                               IF d \in DOMAIN p THEN [p EXCEPT ![d] = tasks.obj]
                               ELSE p @@ (d :> tasks.obj),
                               IF d \in DOMAIN p THEN keys ELSE Append(keys, d))

RECURSIVE SumMinActions(_)
\* sum(t.min_actions for t in tasks)
SumMinActions(tasks) ==
  IF tasks = <<>> THEN 0 ELSE Head(tasks).min_actions + SumMinActions(Tail(tasks))

RECURSIVE SumExpectedCalls(_)
\* sum(t.expected_inference_calls for t in tasks)
SumExpectedCalls(tasks) ==
  IF tasks = <<>> THEN 0
  ELSE expected_inference_calls(Head(tasks)) + SumExpectedCalls(Tail(tasks))

\* one entry of stats(): the averages as the fractions sum / len, 0 for an empty
\* bucket; summing a min_actions of None is a TypeError
BucketStats(tasks) ==
  IF tasks = <<>>
  THEN Return([count |-> 0, avg_min_actions |-> <<0, 1>>, avg_expected_calls |-> <<0, 1>>])
  ELSE IF \E i \in DOMAIN tasks : tasks[i].min_actions = None THEN Raise("TypeError")
  ELSE Return([ count |-> Len(tasks),
                avg_min_actions |-> << SumMinActions(tasks), Len(tasks) >>,
                avg_expected_calls |-> << SumExpectedCalls(tasks), Len(tasks) >> ])

\* TaskCurriculum.stats
stats(p) ==
  IF \E d \in DOMAIN p : BucketStats(p[d]).kind = "raise" THEN Raise("TypeError")
  ELSE Return([d \in DOMAIN p |-> BucketStats(p[d]).obj])

\* load with every document reported as loaded
load_always_true(f, p, keys) ==
  IF f = Absent \/ f = NotJson THEN [ret |-> TRUE, pool |-> p, pool_keys |-> keys]
  ELSE LET loaded == LoadItems(f.items, <<>>, <<>>)
       IN  [ret |-> TRUE, pool |-> loaded.pool, pool_keys |-> loaded.pool_keys]

\* TaskCurriculum.load: the return value and self.pool after the call. An absent file
\* and a document json.loads rejects leave self.pool alone; any later exception is
\* caught after self.pool was reset and partly rebuilt
load(f, p, keys) ==
  IF f = Absent \/ f = NotJson THEN [ret |-> FALSE, pool |-> p, pool_keys |-> keys]
  ELSE LET loaded == LoadItems(f.items, <<>>, <<>>)
       IN  [ret |-> loaded.ok, pool |-> loaded.pool, pool_keys |-> loaded.pool_keys]

\* ------------------------------------------------------------------------
\* reward.py
\* ------------------------------------------------------------------------
\* A float of reward.py is kept exactly: Float(num, den, decay) is the number
\* (num / den) * exp(-decay / 100), with den > 0 and decay >= 0; num >= 0 in a reward.
Float(num, den, decay) == [num |-> num, den |-> den, decay |-> decay]

\* a configuration whose weights add up to 0.9
RewardConfig_light ==
  [ action_weight |-> 50, inference_weight |-> 40,
    action_deviation_penalty |-> 15, inference_deviation_penalty |-> 5 ]

\* RewardConfig(): the default weights and penalties, in hundredths
RewardConfig ==
  [ action_weight |-> 60, inference_weight |-> 40,
    action_deviation_penalty |-> 15, inference_deviation_penalty |-> 5 ]

\* min(1.0, baseline / actual) if actual > 0 else 0.0, as the fraction <<p, q>>
efficiency(baseline, actual) ==
  IF actual > 0
  THEN IF baseline >= actual THEN <<1, 1>> ELSE <<baseline, actual>>
  ELSE <<0, 1>>

\* the excess counted the wrong way round: what is missing to the baseline
extra_reversed(actual, baseline) == IF baseline - actual > 0 THEN baseline - actual ELSE 0

\* max(0, actual - baseline)
extra(actual, baseline) == IF actual - baseline > 0 THEN actual - baseline ELSE 0

\* compute without its first test: a failed episode is scored like a successful one
compute_unguarded(c, success, actual_actions, actual_inference_calls, min_actions, expected_calls) ==
  LET action_efficiency == efficiency(min_actions, actual_actions)
      inference_efficiency == efficiency(expected_calls, actual_inference_calls)
  IN  Float(c.action_weight * action_efficiency[1] * inference_efficiency[2]
              + c.inference_weight * inference_efficiency[1] * action_efficiency[2],
            100 * action_efficiency[2] * inference_efficiency[2],
            c.action_deviation_penalty * extra(actual_actions, min_actions)
              + c.inference_deviation_penalty
                  * extra(actual_inference_calls, expected_calls))

\* RewardCalculator.compute with the configuration c (expected_calls is its argument
\* expected_inference_calls): base * penalty, where
\* penalty = exp(-action_deviation_penalty * extra_actions)
\*           * exp(-inference_deviation_penalty * extra_calls)
compute(c, success, actual_actions, actual_inference_calls, min_actions, expected_calls) ==
  IF ~success THEN Float(0, 1, 0)
  ELSE
    LET action_efficiency == efficiency(min_actions, actual_actions)
        extra_actions == extra(actual_actions, min_actions)
        inference_efficiency == efficiency(expected_calls, actual_inference_calls)
        extra_calls == extra(actual_inference_calls, expected_calls)
    IN  Float(c.action_weight * action_efficiency[1] * inference_efficiency[2]
                + c.inference_weight * inference_efficiency[1] * action_efficiency[2],
              100 * action_efficiency[2] * inference_efficiency[2],
              c.action_deviation_penalty * extra_actions
                + c.inference_deviation_penalty * extra_calls)

\* ------------------------------------------------------------------------
\* evaluation.py
\* ------------------------------------------------------------------------
\* EpisodeStatus
EpisodeStatuses == { "success", "failure", "skipped" }

\* what every EpisodeResult of _run_episode takes from the task
EpisodeResult(t, status) ==
  [ task_id |-> t.id, difficulty |-> t.min_actions, status |-> status,
    min_actions |-> t.min_actions,
    expected_inference_calls |-> expected_inference_calls(t),
    single_step_tokens |-> t.oracle_tokens ]

\* an EpisodeResult as _run_episode builds it
EpisodeOutcome(t, status, actual_actions, actual_inference_calls, multi_step_tokens, reward, failure_reason, action_history) ==
  EpisodeResult(t, status) @@
  [ actual_actions |-> actual_actions, actual_inference_calls |-> actual_inference_calls,
    multi_step_tokens |-> multi_step_tokens, reward |-> reward,
    failure_reason |-> failure_reason, action_history |-> action_history ]

\* the frame when no episode runs
NoEpisode == [pc |-> "idle"]

\* Verifier.verify: a hint shown on the page in any case, else the judgement of the
\* generation service (judged is what _llm_judge returns)
verify(t, st, judged) ==
  \/ /\ t.success_criteria.hints # <<>>
     /\ LET text_lower == lower(st.visible_text)
        IN  \E i \in DOMAIN t.success_criteria.hints :
              contains(text_lower, lower(t.success_criteria.hints[i]))
  \/ judged

\* the loop condition with the budget itself allowed
InBudget_inclusive(calls, max_calls) == calls <= max_calls

\* while self.agent.inference_calls < max_calls
InBudget(calls, max_calls) == calls < max_calls

\* the action lists MultiStepAgent.predict returns for a task: none (the answer named
\* no action or did not parse), the task's own actions, and another action followed
\* by the task's first one
AgentBatches(t) ==
  { <<>>,
    [k \in DOMAIN t.expected_actions |-> Action(t.expected_actions[k])],
    << Action([action |-> "click", element |-> ElemOther]), Action(t.expected_actions[1]) >> }

\* the final return of _run_episode (lines 162-176)
ExhaustedOutcome(e) ==
  EpisodeOutcome(e.task, "failure", e.total_actions, e.agent.inference_calls,
                 e.agent.total_tokens, Float(0, 1, 0), "Max iterations exceeded",
                 e.action_history)

\* a failed reset going on to the loop with an empty page
EpisodeReset_swallow ==
  /\ episode.pc = "start"
  /\ LET begun == [episode EXCEPT
                     !.agent = [total_tokens |-> 0, inference_calls |-> 0],
                     !.max_calls = expected_inference_calls(episode.task) + episode.buffer,
                     !.seen.resets = @ + 1]
     IN  \/ \E text \in PageTexts :
              episode' = [begun EXCEPT !.pc = "while", !.seen.loaded = TRUE,
                                       !.state = [visible_text |-> text]]
         \/ episode' = [begun EXCEPT !.pc = "while"]
  /\ UNCHANGED curriculum_vars
  /\ UNCHANGED oracle_vars
  /\ UNCHANGED store_vars

\* lines 75-102: agent.reset(), max_calls, env.reset(url) and its failure
EpisodeReset ==
  /\ episode.pc = "start"
  /\ LET begun == [episode EXCEPT
                     !.agent = [total_tokens |-> 0, inference_calls |-> 0],
                     !.max_calls = expected_inference_calls(episode.task) + episode.buffer,
                     !.seen.resets = @ + 1]
     IN  \/ \E text \in PageTexts :
              episode' = [begun EXCEPT !.pc = "while", !.seen.loaded = TRUE,
                                       !.state = [visible_text |-> text]]
         \/ episode' = [begun EXCEPT
                          !.pc = "returned",
                          !.ret = EpisodeOutcome(episode.task, "skipped", 0, 0, 0,
                                                 Float(0, 1, 0), "Failed to load", <<>>)]
  /\ UNCHANGED curriculum_vars
  /\ UNCHANGED oracle_vars
  /\ UNCHANGED store_vars

\* lines 105-110: one agent.predict inside the budget; the generation service may
\* fail, and an empty list leaves the loop
EpisodePredict ==
  /\ episode.pc = "while"
  /\ InBudget(episode.agent.inference_calls, episode.max_calls)
  /\ \/ \E tokens \in TokenCounts, actions \in AgentBatches(episode.task) :
          LET predicted == [episode EXCEPT
                              !.agent = [total_tokens |-> @.total_tokens + tokens,
                                         inference_calls |-> @.inference_calls + 1],
                              !.actions = actions,
                              !.seen.predicts = @ + 1,
                              !.seen.requested = <<>>]
          IN  IF actions = <<>>
              THEN episode' = [predicted EXCEPT !.pc = "returned",
                                                !.ret = ExhaustedOutcome(predicted)]
              ELSE episode' = [predicted EXCEPT !.pc = "for", !.i = 1]
     \/ episode' = [episode EXCEPT !.pc = "raised", !.seen.predicts = @ + 1]
  /\ UNCHANGED curriculum_vars
  /\ UNCHANGED oracle_vars
  /\ UNCHANGED store_vars

\* lines 105 and 162-176: the budget is used up
EpisodeExhausted ==
  /\ episode.pc = "while"
  /\ ~InBudget(episode.agent.inference_calls, episode.max_calls)
  /\ episode' = [episode EXCEPT !.pc = "returned", !.ret = ExhaustedOutcome(episode)]
  /\ UNCHANGED curriculum_vars
  /\ UNCHANGED oracle_vars
  /\ UNCHANGED store_vars

\* the verifier consulted after every action
AfterAction_each(e) == [e EXCEPT !.pc = "verify"]

\* where the for loop goes after the action at position i
AfterAction(e) ==
  IF e.i < Len(e.actions) THEN [e EXCEPT !.i = @ + 1] ELSE [e EXCEPT !.pc = "verify"]

\* an element that is not found ending the batch
EpisodeStep_abort ==
  /\ episode.pc = "for"
  /\ LET action == episode.actions[episode.i]
         requested == [episode EXCEPT !.seen.requested = Append(@, action)]
     IN  \/ \E text \in PageTexts :
              episode' = AfterAction([requested EXCEPT
                                        !.state = [visible_text |-> text],
                                        !.total_actions = @ + 1,
                                        !.action_history = Append(@, action),
                                        !.seen.last = "state"])
         \/ episode' = [requested EXCEPT !.seen.last = "ElementNotFoundError",
                                         !.pc = "verify"]
         \/ episode' = [requested EXCEPT
                          !.seen.last = "PageTimeoutError",
                          !.pc = "returned",
                          !.ret = EpisodeOutcome(episode.task, "failure",
                                                 episode.total_actions,
                                                 episode.agent.inference_calls,
                                                 episode.agent.total_tokens, Float(0, 1, 0),
                                                 "Page timeout", episode.action_history)]
         \/ episode' = [requested EXCEPT !.seen.last = "ValueError", !.pc = "raised"]
  /\ UNCHANGED curriculum_vars
  /\ UNCHANGED oracle_vars
  /\ UNCHANGED store_vars

\* lines 113-136: env.step on the next action of the batch: a new state, an element
\* that is not found (continue), a page timeout (return), or another exception of
\* env.step, which nothing catches
EpisodeStep ==
  /\ episode.pc = "for"
  /\ LET action == episode.actions[episode.i]
         requested == [episode EXCEPT !.seen.requested = Append(@, action)]
     IN  \/ \E text \in PageTexts :
              episode' = AfterAction([requested EXCEPT
                                        !.state = [visible_text |-> text],
                                        !.total_actions = @ + 1,
                                        !.action_history = Append(@, action),
                                        !.seen.last = "state"])
         \/ episode' = AfterAction([requested EXCEPT !.seen.last = "ElementNotFoundError"])
         \/ episode' = [requested EXCEPT
                          !.seen.last = "PageTimeoutError",
                          !.pc = "returned",
                          !.ret = EpisodeOutcome(episode.task, "failure",
                                                 episode.total_actions,
                                                 episode.agent.inference_calls,
                                                 episode.agent.total_tokens, Float(0, 1, 0),
                                                 "Page timeout", episode.action_history)]
         \/ episode' = [requested EXCEPT !.seen.last = "ValueError", !.pc = "raised"]
  /\ UNCHANGED curriculum_vars
  /\ UNCHANGED oracle_vars
  /\ UNCHANGED store_vars

\* lines 139-160: the verifier after the batch; success returns the computed reward
EpisodeVerify ==
  /\ episode.pc = "verify"
  /\ \E judged \in BOOLEAN :
       LET ok == verify(episode.task, episode.state, judged)
           verified == [episode EXCEPT !.seen.verifies = @ + 1, !.seen.verified = ok]
       IN  IF ok
           THEN episode' =
                  [verified EXCEPT
                     !.pc = "returned",
                     !.ret = EpisodeOutcome(
                               episode.task, "success", episode.total_actions,
                               episode.agent.inference_calls, episode.agent.total_tokens,
                               compute(RewardConfig, TRUE, episode.total_actions,
                                       episode.agent.inference_calls,
                                       episode.task.min_actions,
                                       expected_inference_calls(episode.task)),
                               "None", episode.action_history)]
           ELSE episode' = [verified EXCEPT !.pc = "while"]
  /\ UNCHANGED curriculum_vars
  /\ UNCHANGED oracle_vars
  /\ UNCHANGED store_vars

\* ------------------------------------------------------------------------
\* The operations on a pool, called between two build_pool calls
\* ------------------------------------------------------------------------
\* sample(difficulty)
Sample ==
  /\ pc = "idle"
  /\ \E difficulty \in 1..(MaxDifficulty + 1) :
       \E ret \in sample(pool, difficulty) :
         call' = [op |-> "sample", difficulty |-> difficulty, ret |-> ret]
  /\ UNCHANGED << file >>
  /\ UNCHANGED curriculum_vars
  /\ UNCHANGED oracle_vars
  /\ UNCHANGED episode

\* save putting the deduplicated record back into self.pool
Save_inplace ==
  /\ pc = "idle"
  /\ file' = Document(SaveItems(pool, pool_keys, {}, <<>>))
  /\ LET rebuilt == LoadItems(file'.items, <<>>, <<>>) IN
       /\ pool' = rebuilt.pool
       /\ pool_keys' = rebuilt.pool_keys
  /\ call' = [op |-> "save"]
  /\ UNCHANGED << pc, args, di, seen_keys, attempts >>
  /\ UNCHANGED oracle_vars
  /\ UNCHANGED episode

\* save(filename)
Save ==
  /\ pc = "idle"
  /\ file' = Document(SaveItems(pool, pool_keys, {}, <<>>))
  /\ call' = [op |-> "save"]
  /\ UNCHANGED curriculum_vars
  /\ UNCHANGED oracle_vars
  /\ UNCHANGED episode

\* load(filename)
Load ==
  /\ pc = "idle"
  /\ LET loaded == load(file, pool, pool_keys) IN
       /\ pool' = loaded.pool
       /\ pool_keys' = loaded.pool_keys
       /\ call' = [op |-> "load", ret |-> loaded.ret]
  /\ UNCHANGED << file, pc, args, di, seen_keys, attempts >>
  /\ UNCHANGED oracle_vars
  /\ UNCHANGED episode

\* stats()
Stats ==
  /\ pc = "idle"
  /\ call' = [op |-> "stats", ret |-> stats(pool)]
  /\ UNCHANGED << file >>
  /\ UNCHANGED curriculum_vars
  /\ UNCHANGED oracle_vars
  /\ UNCHANGED episode

\* EvaluationPipeline._run_episode on a task of the pool, as run calls it
RunEpisode ==
  /\ pc = "idle"
  /\ \E difficulty \in DOMAIN pool :
       \E i \in DOMAIN pool[difficulty], status \in EpisodeStatuses :
         call' = [ op |-> "_run_episode", difficulty |-> difficulty, index |-> i,
                   ret |-> EpisodeResult(pool[difficulty][i], status) ]
  /\ UNCHANGED << file >>
  /\ UNCHANGED curriculum_vars
  /\ UNCHANGED oracle_vars
  /\ UNCHANGED episode

\* ------------------------------------------------------------------------
\* Specifications
\* ------------------------------------------------------------------------
\* after TaskCurriculum.__init__
Init ==
  /\ pool = <<>>
  /\ pool_keys = <<>>
  /\ pc = "idle"
  /\ args = NoArgs
  /\ di = 0
  /\ seen_keys = {}
  /\ attempts = 0
  /\ opc = "idle"
  /\ task = NoTask
  /\ max_steps = 0
  /\ step = 0
  /\ state = NoState
  /\ total_tokens = 0
  /\ actions_taken = <<>>
  /\ inference_calls = 0
  /\ result = NoResult
  /\ raised = ""
  /\ env = NoEnv
  /\ file = Absent
  /\ call = NoCall
  /\ episode = NoEpisode

Next ==
  \/ BuildPool
  \/ ForDifficulty
  \/ Attempt
  \/ ValidateReset
  \/ ValidatePredict
  \/ ValidateStep
  \/ ValidateExhausted
  \/ Admit
  \/ Propagate

Spec == Init /\ [][Next]_vars

\* the tasks TaskGenerator.generate produces for a fresh pool
GeneratedTasks ==
  { g.obj : g \in { o \in UNION { generate(site, d, <<>>) :
                                    site \in { SiteSignup, SiteSettings, SiteBlog },
                                    d \in 1..MaxDifficulty } : o.kind = "object" } }

\* a call Oracle.validate(task, env, max_steps) on its own
InitOracle ==
  /\ pool = <<>>
  /\ pool_keys = <<>>
  /\ pc = "alone"
  /\ args = NoArgs
  /\ di = 0
  /\ seen_keys = {}
  /\ attempts = 0
  /\ opc = "reset"
  /\ task \in GeneratedTasks
  /\ max_steps \in 0..MaxSteps
  /\ step = 0
  /\ state = NoState
  /\ total_tokens = 0
  /\ actions_taken = <<>>
  /\ inference_calls = 0
  /\ result = NoResult
  /\ raised = ""
  /\ env = NoEnv
  /\ file = Absent
  /\ call = NoCall
  /\ episode = NoEpisode

NextOracle ==
  \/ ValidateReset
  \/ ValidatePredict
  \/ ValidateStep
  \/ ValidateExhausted

SpecOracle == InitOracle /\ [][NextOracle]_vars

\* the sequential interpreter runs validate to its end: every call it makes returns
SpecOracleFair == SpecOracle /\ WF_vars(NextOracle)

\* an admitted template task of signup, as build_pool stores it after a validation
\* of the given number of steps
StoreTask(difficulty, k, steps) ==
  LET id == CHOOSE u \in UUIDs : TRUE
      tokens == CHOOSE n \in TokenCounts : TRUE
      template == SITE_ACTION_TEMPLATES[SiteSignup][difficulty][k]
  IN  Admitted(TemplateTask(id, SiteSignup, difficulty, template).obj,
               SuccessResult(difficulty, steps, tokens * steps, steps))

\* pools build_pool leaves behind: the empty pool, and buckets 1 and 2 created in
\* either order, empty (a shortfall) or filled from the signup templates
StorePools ==
  { [pool |-> <<>>, pool_keys |-> <<>>] } \cup
  { [pool |-> (1 :> b1) @@ (2 :> b2), pool_keys |-> keys] :
      b1 \in { <<>>, << StoreTask(1, 1, 2) >> },
      b2 \in { <<>>, << StoreTask(2, 1, 2) >>, << StoreTask(2, 1, 2), StoreTask(2, 2, 3) >> },
      keys \in { <<1, 2>>, <<2, 1>> } }

\* a task record with one key removed
Without(td, key) == [f \in DOMAIN td \ { key } |-> td[f]]

\* the pool records found in the cache directory: none, text that is not JSON, a
\* record whose second key is not an integer, a record with a task that lacks its id,
\* and a well-formed record that repeats a task inside a bucket and across buckets
StoreFiles ==
  { Absent, NotJson,
    Document(<< [key |-> str(1), value |-> << to_dict(StoreTask(1, 1, 1)) >>],
                [key |-> <<"t", "w", "o">>, value |-> << to_dict(StoreTask(2, 1, 2)) >>] >>),
    Document(<< [key |-> str(1), value |-> << to_dict(StoreTask(1, 1, 1)) >>],
                [key |-> str(2), value |-> << Without(to_dict(StoreTask(2, 1, 2)), "id") >>] >>),
    Document(<< [key |-> str(1), value |-> << to_dict(StoreTask(1, 1, 1)) >>],
                [key |-> str(2), value |-> << to_dict(StoreTask(2, 1, 2)),
                                              to_dict(StoreTask(1, 1, 1)),
                                              to_dict(StoreTask(2, 1, 2)) >>] >>) }

\* a TaskCurriculum holding a pool, with a pool record in its cache directory
InitStore ==
  /\ \E p \in StorePools : pool = p.pool /\ pool_keys = p.pool_keys
  /\ pc = "idle"
  /\ args = NoArgs
  /\ di = 0
  /\ seen_keys = {}
  /\ attempts = 0
  /\ opc = "idle"
  /\ task = NoTask
  /\ max_steps = 0
  /\ step = 0
  /\ state = NoState
  /\ total_tokens = 0
  /\ actions_taken = <<>>
  /\ inference_calls = 0
  /\ result = NoResult
  /\ raised = ""
  /\ env = NoEnv
  /\ file \in StoreFiles
  /\ call = NoCall
  /\ episode = NoEpisode

NextStore ==
  \/ Sample
  \/ Save
  \/ Load
  \/ Stats
  \/ RunEpisode

SpecStore == InitStore /\ [][NextStore]_vars

\* build_pool calls with sample, save, stats and evaluation episodes between them
NextCurriculum ==
  \/ BuildPool
  \/ ForDifficulty
  \/ Attempt
  \/ ValidateReset
  \/ ValidatePredict
  \/ ValidateStep
  \/ ValidateExhausted
  \/ Admit
  \/ Propagate
  \/ Sample
  \/ Save
  \/ Stats
  \/ RunEpisode

SpecCurriculum == Init /\ [][NextCurriculum]_vars

\* a Task a caller already holds for one template of a bucket; the caller's copy of
\* the description may be in lower case between blanks
HeldTask(site, target_difficulty, template, padded) ==
  LET made == TemplateTask(CHOOSE id \in UUIDs : TRUE, site, target_difficulty, template).obj
  IN  IF padded
      THEN [made EXCEPT !.description = <<" ">> \o lower(made.description) \o <<" ">>]
      ELSE made

\* the existing_tasks lists passed for (site, target_difficulty): none; every template
\* of the bucket held, as written or in lower case between blanks; all but the last
\* held; every template held under another site
HeldLists(site, target_difficulty) ==
  IF site \notin DOMAIN SITE_ACTION_TEMPLATES
     \/ target_difficulty \notin DOMAIN SITE_ACTION_TEMPLATES[site]
  THEN { <<>> }
  ELSE LET templates == SITE_ACTION_TEMPLATES[site][target_difficulty]
           held(owner, padded) ==
             [k \in DOMAIN templates |->
                HeldTask(owner, target_difficulty, templates[k], padded)]
       IN  { <<>>, held(site, FALSE), held(site, TRUE),
             SubSeq(held(site, FALSE), 1, Len(templates) - 1), held(SiteBlog, FALSE) }

\* the calls made to the TaskGenerator on its own: the chaining search as
\* _generate_by_chaining calls it (max_templates at its default), the exact-template
\* stage, the chaining stage, and generate
GeneratorCalls ==
  { [op |-> "_find_template_combinations", site |-> site, target |-> target,
     max_templates |-> 3] :
      site \in DOMAIN SITE_ACTION_TEMPLATES, target \in 1..MaxTarget } \cup
  UNION { { [op |-> op, site |-> site, target_difficulty |-> target,
             existing_tasks |-> existing_tasks] :
              existing_tasks \in HeldLists(site, target),
              op \in { "generate", "_generate_from_template" } } :
          site \in DOMAIN SITE_ACTION_TEMPLATES \cup { SiteBlog }, target \in 1..MaxTarget } \cup
  { [op |-> "_generate_by_chaining", site |-> site, target_difficulty |-> target,
     existing_tasks |-> <<>>] :
      site \in DOMAIN SITE_ACTION_TEMPLATES, target \in 1..MaxTarget }

\* a TaskGenerator about to serve one call
InitGenerator ==
  /\ pool = <<>>
  /\ pool_keys = <<>>
  /\ pc = "idle"
  /\ args = NoArgs
  /\ di = 0
  /\ seen_keys = {}
  /\ attempts = 0
  /\ opc = "idle"
  /\ task = NoTask
  /\ max_steps = 0
  /\ step = 0
  /\ state = NoState
  /\ total_tokens = 0
  /\ actions_taken = <<>>
  /\ inference_calls = 0
  /\ result = NoResult
  /\ raised = ""
  /\ env = NoEnv
  /\ file = Absent
  /\ call \in GeneratorCalls
  /\ episode = NoEpisode

\* _find_template_combinations(SITE_ACTION_TEMPLATES[site], target) returns
FindTemplateCombinations ==
  /\ call.op = "_find_template_combinations"
  /\ "ret" \notin DOMAIN call
  /\ call' = call @@
       [ret |-> _find_template_combinations(SITE_ACTION_TEMPLATES[call.site], call.target,
                                            call.max_templates)]
  /\ UNCHANGED << file >>
  /\ UNCHANGED curriculum_vars
  /\ UNCHANGED oracle_vars
  /\ UNCHANGED episode

\* _generate_from_template(site, target_difficulty, existing_tasks) returns
GenerateFromTemplate ==
  /\ call.op = "_generate_from_template"
  /\ "ret" \notin DOMAIN call
  /\ \E ret \in _generate_from_template(call.site, call.target_difficulty,
                                        call.existing_tasks) :
       call' = call @@ [ret |-> ret]
  /\ UNCHANGED << file >>
  /\ UNCHANGED curriculum_vars
  /\ UNCHANGED oracle_vars
  /\ UNCHANGED episode

\* _generate_by_chaining(site, target_difficulty, []) returns None or leaves the loop
\* at the first combination of the shuffled list: combination, combined_actions and
\* unique_hints are the locals of that iteration, ret is what the Task(...) call gives
GenerateByChaining ==
  /\ call.op = "_generate_by_chaining"
  /\ "ret" \notin DOMAIN call
  /\ LET valid_combinations ==
           _find_template_combinations(SITE_ACTION_TEMPLATES[call.site],
                                       call.target_difficulty, 3)
     IN  IF valid_combinations = {}
         THEN call' = call @@ [ret |-> ReturnNone]
         ELSE \E combination \in valid_combinations, id \in UUIDs :
                call' = call @@
                  [ combination |-> combination,
                    combined_actions |->
                      concat([i \in DOMAIN combination |-> combination[i][2].actions]),
                    unique_hints |-> ChainedHints(combination),
                    ret |-> ChainedTask(id, call.site, call.target_difficulty, combination) ]
  /\ UNCHANGED << file, episode >>
  /\ UNCHANGED curriculum_vars
  /\ UNCHANGED oracle_vars

\* generate(site, target_difficulty, env, existing_tasks=existing_tasks) returns or
\* raises; stages lists the strategies it went through
Generate ==
  /\ call.op = "generate"
  /\ "ret" \notin DOMAIN call
  /\ \E g \in generate_stages(call.site, call.target_difficulty, call.existing_tasks) :
       call' = call @@ g
  /\ UNCHANGED << file >>
  /\ UNCHANGED curriculum_vars
  /\ UNCHANGED oracle_vars
  /\ UNCHANGED episode

NextGenerator ==
  \/ FindTemplateCombinations
  \/ GenerateFromTemplate
  \/ GenerateByChaining
  \/ Generate

SpecGenerator == InitGenerator /\ [][NextGenerator]_vars

\* the sum of one integer field over a list of EpisodeResult
RECURSIVE SumField(_, _)
SumField(results, field) ==
  IF results = <<>> THEN 0 ELSE Head(results)[field] + SumField(Tail(results), field)

\* _aggregate without its first test: statistics.mean of no data raises
_aggregate_unguarded(difficulty, results) ==
  IF results = <<>> THEN Raise("StatisticsError")
  ELSE
    LET n == Len(results)
        successes == SelectSeq(results, LAMBDA r : r.status = "success")
        multi == SumField(results, "multi_step_tokens")
        single == SumField(results, "single_step_tokens")
    IN  [ difficulty |-> difficulty, num_episodes |-> n,
          success_rate |-> Float(Len(successes), n, 0),
          avg_actual_actions |-> Float(SumField(results, "actual_actions"), n, 0),
          avg_min_actions |-> Float(SumField(results, "min_actions"), n, 0),
          avg_inference_calls |-> Float(SumField(results, "actual_inference_calls"), n, 0),
          avg_expected_calls |-> Float(SumField(results, "expected_inference_calls"), n, 0),
          avg_multi_step_tokens |-> Float(multi, n, 0),
          avg_single_step_tokens |-> Float(single, n, 0),
          token_reduction_percent |->
            IF single > 0 THEN Float(100 * (single - multi), single, 0) ELSE Float(0, 1, 0),
          avg_reward |-> [mean_of |-> [k \in DOMAIN results |-> results[k].reward]] ]

\* EvaluationPipeline._aggregate: the AggregatedResults of a list of EpisodeResult.  A
\* mean of integers is the fraction sum / n; (1 - avg_multi / avg_single) * 100 is
\* 100 * (single - multi) / single with the two sums; the mean of the rewards is kept
\* as the list it is taken of
_aggregate(difficulty, results) ==
  IF results = <<>>
  THEN [ difficulty |-> difficulty, num_episodes |-> 0,
         success_rate |-> Float(0, 1, 0),
         avg_actual_actions |-> Float(0, 1, 0), avg_min_actions |-> Float(0, 1, 0),
         avg_inference_calls |-> Float(0, 1, 0), avg_expected_calls |-> Float(0, 1, 0),
         avg_multi_step_tokens |-> Float(0, 1, 0), avg_single_step_tokens |-> Float(0, 1, 0),
         token_reduction_percent |-> Float(0, 1, 0), avg_reward |-> Float(0, 1, 0) ]
  ELSE
    LET n == Len(results)
        successes == SelectSeq(results, LAMBDA r : r.status = "success")
        multi == SumField(results, "multi_step_tokens")
        single == SumField(results, "single_step_tokens")
    IN  [ difficulty |-> difficulty, num_episodes |-> n,
          success_rate |-> Float(Len(successes), n, 0),
          avg_actual_actions |-> Float(SumField(results, "actual_actions"), n, 0),
          avg_min_actions |-> Float(SumField(results, "min_actions"), n, 0),
          avg_inference_calls |-> Float(SumField(results, "actual_inference_calls"), n, 0),
          avg_expected_calls |-> Float(SumField(results, "expected_inference_calls"), n, 0),
          avg_multi_step_tokens |-> Float(multi, n, 0),
          avg_single_step_tokens |-> Float(single, n, 0),
          token_reduction_percent |->
            IF single > 0 THEN Float(100 * (single - multi), single, 0) ELSE Float(0, 1, 0),
          avg_reward |-> [mean_of |-> [k \in DOMAIN results |-> results[k].reward]] ]

\* results _run_episode returns for a task: skipped, failed on a page timeout during
\* the first batch, and successful with the task's own actions in one call
EpisodeOutcomes(t) ==
  LET n == Len(t.expected_actions)
      tokens == CHOOSE k \in TokenCounts : TRUE
  IN  { EpisodeOutcome(t, "skipped", 0, 0, 0, Float(0, 1, 0), "Failed to load", <<>>),
        EpisodeOutcome(t, "failure", 0, 1, tokens, Float(0, 1, 0), "Page timeout", <<>>),
        EpisodeOutcome(t, "success", n, 1, tokens,
                       compute(RewardConfig, TRUE, n, 1, t.min_actions,
                               expected_inference_calls(t)),
                       "None", [k \in 1..n |-> Action(t.expected_actions[k])]) }

\* run, lines 46-57: the tasks whose results are appended to all_results[d], one pass
\* over pool.get(d, []) for every occurrence of d in config.difficulties
Visits(p, difficulties, d) ==
  concat([k \in DOMAIN difficulties |->
            IF difficulties[k] = d THEN Get(p, d, <<>>) ELSE <<>>])

\* the lists of results the episodes of a list of tasks may give
Episodes(tasks) ==
  { results \in [DOMAIN tasks -> UNION { EpisodeOutcomes(tasks[k]) : k \in DOMAIN tasks }] :
      \A k \in DOMAIN tasks : results[k] \in EpisodeOutcomes(tasks[k]) }

\* the calls made to an EvaluationPipeline: run with the difficulties of its
\* configuration, and _aggregate on lists of results, some of a task whose record
\* holds 0 oracle tokens
EvaluationCalls ==
  { [op |-> "run", difficulties |-> difficulties] :
      difficulties \in { <<>> } \cup { <<d>> : d \in 1..(MaxDifficulty + 1) }
                       \cup { <<d1, d2>> : d1, d2 \in 1..(MaxDifficulty + 1) } } \cup
  LET outcomes == EpisodeOutcomes(StoreTask(1, 1, 1))
                  \cup EpisodeOutcomes([StoreTask(2, 1, 2) EXCEPT !.oracle_tokens = 0])
  IN  { [op |-> "_aggregate", difficulty |-> 1, results |-> results] :
          results \in { <<>> } \cup { <<r>> : r \in outcomes }
                      \cup { <<r1, r2>> : r1, r2 \in outcomes } }

\* an EvaluationPipeline over a pool that build_pool left, about to serve one call
InitEvaluation ==
  /\ \E p \in StorePools :
       /\ pool = p.pool
       /\ pool_keys = p.pool_keys
  /\ pc = "idle"
  /\ args = NoArgs
  /\ di = 0
  /\ seen_keys = {}
  /\ attempts = 0
  /\ opc = "idle"
  /\ task = NoTask
  /\ max_steps = 0
  /\ step = 0
  /\ state = NoState
  /\ total_tokens = 0
  /\ actions_taken = <<>>
  /\ inference_calls = 0
  /\ result = NoResult
  /\ raised = ""
  /\ env = NoEnv
  /\ file = Absent
  /\ call \in EvaluationCalls
  /\ episode = NoEpisode

\* run(env) returns: lines 42-44 make one list per configured difficulty, 46-57 fill
\* them with the episodes' results, 66-70 aggregate each list
Run ==
  /\ call.op = "run"
  /\ "ret" \notin DOMAIN call
  /\ \E all_results \in
          [Elems(call.difficulties) ->
             UNION { Episodes(Visits(pool, call.difficulties, d)) :
                       d \in Elems(call.difficulties) }] :
       /\ \A d \in Elems(call.difficulties) :
            all_results[d] \in Episodes(Visits(pool, call.difficulties, d))
       /\ call' = call @@
            [ret |-> [d \in Elems(call.difficulties) |-> _aggregate(d, all_results[d])]]
  /\ UNCHANGED << file, episode >>
  /\ UNCHANGED curriculum_vars
  /\ UNCHANGED oracle_vars

\* _aggregate(difficulty, results) returns
Aggregate ==
  /\ call.op = "_aggregate"
  /\ "ret" \notin DOMAIN call
  /\ call' = call @@ [ret |-> _aggregate(call.difficulty, call.results)]
  /\ UNCHANGED << file, episode >>
  /\ UNCHANGED curriculum_vars
  /\ UNCHANGED oracle_vars

NextEvaluation ==
  \/ Run
  \/ Aggregate

SpecEvaluation == InitEvaluation /\ [][NextEvaluation]_vars

\* the tasks of a pool an episode is run on: signup templates as the oracle validated
\* them, in their own number of steps or in one more
EpisodeTasks == { StoreTask(1, 1, 1), StoreTask(2, 1, 2), StoreTask(2, 2, 3) }

\* _run_episode(task, env) is entered: the agent still holds the counters of the
\* episode before, the configuration holds the buffer
EpisodeFrames ==
  { [ pc |-> "start", task |-> t, buffer |-> buffer, agent |-> agent, max_calls |-> 0,
      state |-> NoState, total_actions |-> 0, action_history |-> <<>>,
      actions |-> <<>>, i |-> 0, ret |-> NoResult,
      seen |-> [ resets |-> 0, loaded |-> FALSE, predicts |-> 0, requested |-> <<>>,
                 last |-> "", verifies |-> 0, verified |-> FALSE ] ] :
      t \in EpisodeTasks, buffer \in 0..MaxBuffer,
      agent \in { [total_tokens |-> 0, inference_calls |-> 0],
                  [total_tokens |-> 14, inference_calls |-> 2] } }

InitEpisode ==
  /\ pool = <<>>
  /\ pool_keys = <<>>
  /\ pc = "idle"
  /\ args = NoArgs
  /\ di = 0
  /\ seen_keys = {}
  /\ attempts = 0
  /\ opc = "idle"
  /\ task = NoTask
  /\ max_steps = 0
  /\ step = 0
  /\ state = NoState
  /\ total_tokens = 0
  /\ actions_taken = <<>>
  /\ inference_calls = 0
  /\ result = NoResult
  /\ raised = ""
  /\ env = NoEnv
  /\ file = Absent
  /\ call = NoCall
  /\ episode \in EpisodeFrames

NextEpisode ==
  \/ EpisodeReset
  \/ EpisodePredict
  \/ EpisodeExhausted
  \/ EpisodeStep
  \/ EpisodeVerify

SpecEpisode == InitEpisode /\ [][NextEpisode]_vars

\* one call that parses what the generation service answered: Oracle.validate on a
\* generated task, or _run_episode on a task of a pool
InitParsing == InitOracle \/ InitEpisode

NextParsing ==
  \/ ValidateReset
  \/ ValidatePredict
  \/ ValidateStep
  \/ ValidateExhausted
  \/ EpisodeReset
  \/ EpisodePredict
  \/ EpisodeExhausted
  \/ EpisodeStep
  \/ EpisodeVerify

SpecParsing == InitParsing /\ [][NextParsing]_vars

\* the interpreter keeps running the call
SpecEpisodeFair == SpecEpisode /\ WF_vars(NextEpisode)

\* the calls made to a RewardCalculator on its own
RewardCalls ==
  { [op |-> "compute", success |-> success, actual_actions |-> actual_actions,
     actual_inference_calls |-> actual_inference_calls, min_actions |-> min_actions,
     expected_inference_calls |-> expected_calls] :
      success \in BOOLEAN, actual_actions \in 0..MaxCount,
      actual_inference_calls \in 0..MaxCount, min_actions \in 0..MaxCount,
      expected_calls \in 0..MaxCount }

\* a RewardCalculator() about to serve one call
InitReward ==
  /\ pool = <<>>
  /\ pool_keys = <<>>
  /\ pc = "idle"
  /\ args = NoArgs
  /\ di = 0
  /\ seen_keys = {}
  /\ attempts = 0
  /\ opc = "idle"
  /\ task = NoTask
  /\ max_steps = 0
  /\ step = 0
  /\ state = NoState
  /\ total_tokens = 0
  /\ actions_taken = <<>>
  /\ inference_calls = 0
  /\ result = NoResult
  /\ raised = ""
  /\ env = NoEnv
  /\ file = Absent
  /\ call \in RewardCalls
  /\ episode = NoEpisode

\* compute(success, actual_actions, actual_inference_calls, min_actions,
\* expected_inference_calls) returns
Compute ==
  /\ call.op = "compute"
  /\ "ret" \notin DOMAIN call
  /\ call' = call @@
       [ret |-> compute(RewardConfig, call.success, call.actual_actions,
                        call.actual_inference_calls, call.min_actions,
                        call.expected_inference_calls)]
  /\ UNCHANGED << file >>
  /\ UNCHANGED curriculum_vars
  /\ UNCHANGED oracle_vars
  /\ UNCHANGED episode

NextReward == Compute

SpecReward == InitReward /\ [][NextReward]_vars

\* ------------------------------------------------------------------------
\* Properties
\* ------------------------------------------------------------------------
\* the tasks of a bucket
Bucket(d) == IF d \in DOMAIN pool THEN pool[d] ELSE <<>>

\* C1: in build_pool a validated candidate is appended to bucket d exactly when the
\* oracle reports success with d <= steps_taken <= d+1 (so never with d-1 or d+2
\* steps); a bucket grows by nothing else, and the task appended has validated = TRUE
\* and min_actions = steps_taken, within d..d+1.
C1_Admission ==
  [][ /\ (pc = "validating" /\ opc = "returned") =>
          LET d == args.difficulties[di] IN
            /\ (Len(pool'[d]) = Len(pool[d]) + 1)
                 <=> (result.valid /\ d <= result.steps_taken /\ result.steps_taken <= d + 1)
            /\ Len(pool'[d]) \in { Len(pool[d]), Len(pool[d]) + 1 }
      /\ \A d \in DOMAIN pool' :
            Len(pool'[d]) > Len(Bucket(d)) =>
              LET added == pool'[d][Len(pool'[d])] IN
                /\ pc = "validating" /\ opc = "returned"
                /\ d = args.difficulties[di]
                /\ SubSeq(pool'[d], 1, Len(pool'[d]) - 1) = Bucket(d)
                /\ added.validated
                /\ added.min_actions = result.steps_taken
                /\ d <= added.min_actions /\ added.min_actions <= d + 1
    ]_vars

\* a bucket holds a task admitted with exactly d steps and one admitted with d+1
C1_Witness ==
  \E d \in DOMAIN pool :
    \E i, j \in DOMAIN pool[d] :
      /\ pool[d][i].validated /\ pool[d][i].min_actions = d
      /\ pool[d][j].validated /\ pool[d][j].min_actions = d + 1

\* C2: a task with a pre-known expected action count n is in the pool only with an
\* observed step count (its min_actions) equal to n; a validation that succeeds with
\* n+1 steps does not lead to admission.
C2_ExactExpectedCount ==
  \A d \in DOMAIN pool :
    \A i \in DOMAIN pool[d] :
      HasExpectedActions(pool[d][i]) =>
        pool[d][i].min_actions = Len(pool[d][i].expected_actions)

\* the (action kind, element, value) triples of a task's expected actions
ActionTuple(t) ==
  LET actions == IF HasExpectedActions(t) THEN t.expected_actions ELSE <<>>
  IN  [i \in DOMAIN actions |->
         << actions[i].action, actions[i].element, Get(actions[i], "value", <<>>) >>]

\* the key as the claim describes it
StatedKey(t) == << t.site, lower(t.description), ActionTuple(t) >>

\* the candidates TaskGenerator.generate can hand to build_pool in the current attempt
Candidates ==
  IF pc # "while" THEN {}
  ELSE LET d == args.difficulties[di] IN
    IF ~( /\ Len(pool[d]) < args.tasks_per_difficulty
          /\ attempts < args.tasks_per_difficulty * args.max_retries ) THEN {}
    ELSE
    { g.obj : g \in { o \in UNION { generate(args.sites[i], d,
                                             SelectSeq(pool[d], LAMBDA t : t.site = args.sites[i])) :
                                    i \in DOMAIN args.sites } : o.kind = "object" } }

\* C3: no bucket holds two tasks with the same key (site, lowercased description,
\* action triples), and the key build_pool computes tells apart two tasks of the same
\* site and description whose expected action sequences differ.
C3_PoolUniqueness ==
  /\ \A d \in DOMAIN pool :
       \A i, j \in DOMAIN pool[d] :
         i # j => StatedKey(pool[d][i]) # StatedKey(pool[d][j])
  /\ \A d \in DOMAIN pool :
       \A p \in Elems(pool[d]) :
         \A q \in Candidates :
           ( /\ q.site = p.site
             /\ lower(q.description) = lower(p.description)
             /\ ActionTuple(q) # ActionTuple(p) )
           => normalize_task(q) # normalize_task(p)

\* the model proposed the task's expected actions in order and every one was executed
FollowedTemplate ==
  /\ HasExpectedActions(task)
  /\ env.executed = Len(task.expected_actions)
  /\ Len(actions_taken) = Len(task.expected_actions)
  /\ \A i \in DOMAIN actions_taken : actions_taken[i] = Action(task.expected_actions[i])

\* the page validate holds shows every hint of the task
ShowsEveryHint ==
  \A i \in DOMAIN task.success_criteria.hints :
    contains(lower(state.visible_text), lower(task.success_criteria.hints[i]))

\* C4: for a template task of n actions, validate with max_steps >= n, a model that
\* proposes the template's actions in order and an environment that executes each of
\* them (and then shows the template's hints) returns valid with steps_taken = n.
C4_TemplateValidates ==
  ( /\ opc = "returned"
    /\ FollowedTemplate
    /\ max_steps >= Len(task.expected_actions)
    /\ ShowsEveryHint )
  => ( result.valid /\ result.steps_taken = Len(task.expected_actions) )

\* C5: for a task with a known expected action count n > 0, validate never returns
\* valid with steps_taken < n, and a hint match after fewer than n executed actions
\* sends validate back to the head of its loop.
C5_EarlySuccessSuppressed ==
  /\ [] ( ( /\ opc = "returned"
            /\ result.valid
            /\ HasExpectedActions(task)
            /\ Len(task.expected_actions) > 0 )
          => result.steps_taken >= Len(task.expected_actions) )
  /\ [][ ( /\ opc = "step"
           /\ HasExpectedActions(task)
           /\ env'.executed = env.executed + 1
           /\ env'.executed < Len(task.expected_actions)
           /\ _check_success(state', task) )
         => ( opc' = "loop" /\ step' = step + 1 /\ result' = result ) ]_vars

\* a hint is on the page after fewer executed actions than expected, and validate goes on
C5_Witness ==
  /\ opc = "loop"
  /\ HasExpectedActions(task)
  /\ env.executed >= 1
  /\ env.executed < Len(task.expected_actions)
  /\ _check_success(state, task)

\* C6: for a task without a known expected action count, as soon as an executed action
\* leaves a page whose visible text contains a hint (case-insensitively), validate has
\* returned valid with steps_taken equal to the number of actions executed.
C6_ModelTaskSucceedsOnHint ==
  ( /\ ~HasExpectedActions(task)
    /\ env.executed >= 1
    /\ _check_success(state, task) )
  => ( /\ opc = "returned"
       /\ result.valid
       /\ result.steps_taken = env.executed )

\* C7: every OracleResult returned after the page loaded has inference_calls equal to
\* the number of generation-service calls made, one per step attempted, whether the
\* environment executed the step or not.
C7_InferenceCalls ==
  ( opc = "returned" /\ env.loaded )
  => ( /\ result.inference_calls = env.calls
       /\ env.calls = inference_calls
       /\ env.steps <= env.calls
       /\ env.calls <= env.steps + 1 )

\* a result returned after two calls, the second step having failed in the environment
C7_Witness ==
  /\ opc = "returned"
  /\ env.loaded
  /\ env.calls = 2
  /\ env.steps = 2
  /\ env.executed = 1

\* C8: validate terminates, with at most max_steps generation-service calls and at most
\* max_steps environment steps; when max_steps iterations ran without an accepted
\* success the result is not valid and its steps_taken is max_steps.
C8_Terminates ==
  /\ [] ( env.calls <= max_steps /\ env.steps <= max_steps )
  /\ [] ( ( opc = "returned" /\ env.loaded /\ step = max_steps )
          => ( ~result.valid /\ result.steps_taken = max_steps ) )
  /\ <> ( opc \in { "returned", "raised" } )

\* the budget of at least two steps was used up
C8_Witness ==
  /\ opc = "returned"
  /\ max_steps >= 2
  /\ step = max_steps
  /\ env.executed = max_steps

\* C9: when env.step fails with an unresolved element or a page timeout, the result is
\* not valid, its steps_taken is the number of steps executed before the failure and
\* its tokens_used the tokens consumed so far.
C9_FailedStepNotCounted ==
  ( /\ opc = "returned"
    /\ result.reason \in { "Element not found", "Page timeout during action" } )
  => ( /\ ~result.valid
       /\ result.steps_taken = env.executed
       /\ result.tokens_used = env.tokens )

\* C10: when env.reset fails, validate has returned not valid at once, with no
\* generation-service call and no environment step, and steps_taken, tokens_used and
\* inference_calls all 0.
C10_LoadFailure ==
  ( env.resets >= 1 /\ ~env.loaded )
  => ( /\ opc = "returned"
       /\ ~result.valid
       /\ result.steps_taken = 0
       /\ result.tokens_used = 0
       /\ result.inference_calls = 0
       /\ env.calls = 0
       /\ env.steps = 0
       /\ env.tokens = 0 )

\* the reset failed
C10_Witness ==
  /\ env.resets = 1
  /\ ~env.loaded
  /\ opc = "returned"

\* C11: when the model answers {"action": "done"}, Oracle.validate stops stepping:
\* it has returned a result that is not valid and carries the budget reason, the
\* environment executed nothing for that answer (steps requested = steps counted =
\* actions taken), and no call to the environment or the generation service follows.
C11_DoneStopsStepping ==
  /\ [](env.done =>
          /\ opc = "returned"
          /\ ~result.valid
          /\ result.reason = "Max steps exceeded without completion"
          /\ result.steps_taken = env.steps
          /\ result.inference_calls = env.calls
          /\ env.steps = env.calls - 1)
  /\ [][env.done => env' = env]_vars

\* C11 happens: the completion signal came after one action was executed
C11_Witness ==
  /\ env.done
  /\ opc = "returned"
  /\ env.executed >= 1

\* C12: build_pool ends every difficulty without an exception: no exception leaves
\* the call, the attempts made for a difficulty never exceed tasks_per_difficulty x
\* max_retries, and a candidate is validated only while the bucket is below its
\* target.
C12_BuildPoolTerminates ==
  /\ pc # "raised"
  /\ pc \in { "while", "validating" } =>
        /\ attempts <= args.tasks_per_difficulty * args.max_retries
        /\ pc = "validating" =>
              Len(pool[args.difficulties[di]]) < args.tasks_per_difficulty

\* C13: a page-load failure or page timeout inside a build_pool run ends only the
\* current attempt: a validation that met one has returned a result that is not
\* valid and records a reason, and no PageTimeoutError leaves build_pool.
C13_PageFailureContained ==
  /\ (pc = "validating" /\ opc = "returned" /\ env.resets = 1 /\ ~env.loaded) =>
        (~result.valid /\ result.reason = "Page load failed")
  /\ ~(pc = "raised" /\ raised = "PageTimeoutError")

\* C14: build_pool never removes, replaces or reorders the tasks of a bucket: on
\* every step of a call each bucket keeps its tasks as a prefix, and a bucket whose
\* difficulty is not the one being built (so every bucket that was not requested) is
\* left as it is.
C14_IncrementalBuilding ==
  [][ pc # "idle" =>
        \A d \in DOMAIN pool :
          /\ d \in DOMAIN pool'
          /\ Len(pool'[d]) >= Len(pool[d])
          /\ SubSeq(pool'[d], 1, Len(pool[d])) = pool[d]
          /\ pool'[d] # pool[d] =>
                (d \in Elems(args.difficulties) /\ d = args.difficulties[di]) ]_vars

\* C14 happens: bucket 2 holds two tasks after a single attempt of the running call,
\* so the call found a task there and appended to it; and a call for difficulty 1
\* alone is possible while bucket 2 is filled
C14_Witness ==
  /\ pc = "while"
  /\ args.difficulties[di] = 2
  /\ attempts = 1
  /\ Len(pool[2]) = 2
  /\ pool[1] # <<>>

\* C15: min_actions is written once, at admission, from the oracle's step count: a
\* task enters a bucket with min_actions = steps_taken of the result just returned,
\* having had none before, and no step of build_pool, sample, save, stats or an
\* evaluation episode changes the min_actions of a task that is in the pool.
C15_MinActionsWrittenOnce ==
  [][ /\ \A d \in DOMAIN pool :
           /\ d \in DOMAIN pool'
           /\ Len(pool'[d]) >= Len(pool[d])
           /\ \A i \in DOMAIN pool[d] : pool'[d][i].min_actions = pool[d][i].min_actions
      /\ \A d \in DOMAIN pool' :
           \A i \in DOMAIN pool'[d] :
             (d \notin DOMAIN pool \/ i > Len(pool[d])) =>
               /\ task.min_actions = None
               /\ pool'[d][i].min_actions = result.steps_taken ]_vars

\* C15 happens: a task admitted to bucket 1 with two measured steps was saved, and an
\* evaluation episode has then run on it
C15_Witness ==
  /\ call.op = "_run_episode"
  /\ call.difficulty = 1
  /\ call.ret.min_actions = 2
  /\ pool[1][call.index].min_actions = 2
  /\ file # Absent

\* C16: save deduplicates bucket by bucket: after save the stored record lists, for
\* each difficulty of the pool, the bucket's tasks in order without the later
\* duplicates of a key inside that bucket, so a task is never dropped because its key
\* occurs in another bucket.
C16_SaveDeduplicatesPerBucket ==
  call.op = "save" =>
    file = Document([ i \in DOMAIN pool_keys |->
                        [ key |-> str(pool_keys[i]),
                          value |-> SaveTasks(pool[pool_keys[i]], {}, <<>>).unique_task_dicts ] ])

\* the positions of a pool: difficulty and index
Positions(p) == UNION { { << d, i >> : i \in DOMAIN p[d] } : d \in DOMAIN p }

\* no two tasks of the pool have the same key
NoDuplicateKeys(p) ==
  \A x, y \in Positions(p) :
    x # y => StatedKey(p[x[1]][x[2]]) # StatedKey(p[y[1]][y[2]])

\* C17: for a pool without duplicate keys, save followed by load succeeds and gives
\* back the same difficulty keys and, in every bucket, the same tasks in the same
\* order with every field equal, the expected actions of template tasks included.
C17_RoundTrip ==
  [][ (call.op = "save" /\ call'.op = "load" /\ NoDuplicateKeys(pool)) =>
        (call'.ret = TRUE /\ pool' = pool) ]_vars

\* the pool record is absent or malformed: not a JSON document, a difficulty key that
\* is not an integer, or a task record without a required field
Malformed(f) ==
  \/ f = Absent
  \/ f = NotJson
  \/ /\ "items" \in DOMAIN f
     /\ \E i \in DOMAIN f.items :
          \/ int(f.items[i].key).kind = "raise"
          \/ \E j \in DOMAIN f.items[i].value :
               LET data == f.items[i].value[j] IN
                 \/ ~(TaskRequired \subseteq DOMAIN data)
                 \/ "description" \notin DOMAIN data.success_criteria

\* C18: load returns a boolean and raises nothing; it returns false when the pool
\* record is absent or malformed, and true only when every bucket of the record was
\* rebuilt, task by task.
C18_LoadReportsFailure ==
  call.op = "load" =>
    /\ call.ret \in BOOLEAN
    /\ raised = ""
    /\ Malformed(file) => call.ret = FALSE
    /\ call.ret = TRUE =>
          \A i \in DOMAIN file.items :
            LET difficulty == int(file.items[i].key)
                tasks_data == file.items[i].value
            IN  /\ difficulty.kind = "object"
                /\ difficulty.obj \in DOMAIN pool
                /\ Len(pool[difficulty.obj]) = Len(tasks_data)
                /\ \A j \in DOMAIN tasks_data :
                     to_dict(pool[difficulty.obj][j]) = tasks_data[j]

\* C18 happens: load has returned false on a record whose first bucket is well formed
\* and whose second is not
C18_Witness ==
  /\ call.op = "load"
  /\ call.ret = FALSE
  /\ "items" \in DOMAIN file
  /\ Len(file.items) = 2

\* C19: sample(d) returns None exactly when bucket d is absent or empty, and
\* otherwise a task that is in bucket d.
C19_SampleFromBucket ==
  call.op = "sample" =>
    LET d == call.difficulty IN
      /\ call.ret = ReturnNone <=> (d \notin DOMAIN pool \/ pool[d] = <<>>)
      /\ call.ret # ReturnNone =>
            /\ call.ret.kind = "object"
            /\ \E i \in DOMAIN pool[d] : pool[d][i] = call.ret.obj

\* C19 happens: sample(2) returned a task while bucket 1 holds another task
C19_Witness ==
  /\ call.op = "sample"
  /\ call.difficulty = 2
  /\ call.ret.kind = "object"
  /\ 1 \in DOMAIN pool
  /\ pool[1] # <<>>
  /\ call.ret.obj \notin Elems(pool[1])

\* the difficulties of the components of a combination, added up
RECURSIVE SumDifficulties(_)
SumDifficulties(combination) ==
  IF combination = <<>> THEN 0
  ELSE Head(combination)[1] + SumDifficulties(Tail(combination))

\* C20: every combination the chaining search returns with max_templates = 3 has at
\* least 2 and at most 3 components, each a template of one of the site's difficulty
\* buckets, and the components' difficulties add up to the target; no combination
\* has a single component.
C20_ChainingCombinations ==
  (call.op = "_find_template_combinations" /\ "ret" \in DOMAIN call) =>
    \A combination \in call.ret :
      /\ Len(combination) >= 2
      /\ Len(combination) <= call.max_templates
      /\ call.max_templates = 3
      /\ \A k \in DOMAIN combination :
           LET diff == combination[k][1]
               template == combination[k][2]
           IN  /\ diff \in DOMAIN SITE_ACTION_TEMPLATES[call.site]
               /\ template \in Elems(SITE_ACTION_TEMPLATES[call.site][diff])
      /\ SumDifficulties(combination) = call.target

\* C20 happens: the search for a target that is also a template difficulty returned
\* combinations of two and of three components
C20_Witness ==
  /\ call.op = "_find_template_combinations"
  /\ "ret" \in DOMAIN call
  /\ call.target \in DOMAIN SITE_ACTION_TEMPLATES[call.site]
  /\ \E c \in call.ret : Len(c) = 2
  /\ \E c \in call.ret : Len(c) = 3

\* C21: for a site whose catalog has the difficulty buckets 1, 2, 3 and 4 and no
\* bucket 7, generate(site, 7) with no existing tasks returns a chained task: its
\* expected action list has exactly 7 actions, and it carries the chained marker and
\* the list of the identifiers of the contributing templates.
C21_ChainedTaskForSeven ==
  ( /\ call.op = "generate"
    /\ "ret" \in DOMAIN call
    /\ call.target_difficulty = 7
    /\ call.existing_tasks = <<>>
    /\ call.site \in DOMAIN SITE_ACTION_TEMPLATES
    /\ { 1, 2, 3, 4 } \subseteq DOMAIN SITE_ACTION_TEMPLATES[call.site]
    /\ 7 \notin DOMAIN SITE_ACTION_TEMPLATES[call.site] ) =>
    /\ call.ret.kind = "object"
    /\ Len(call.ret.obj.expected_actions) = 7
    /\ "is_chained" \in DOMAIN call.ret.obj
    /\ call.ret.obj.is_chained
    /\ "chained_from" \in DOMAIN call.ret.obj
    /\ call.ret.obj.chained_from # <<>>

\* the catalog has templates for the pair (site, difficulty)
HasTemplates(site, difficulty) ==
  /\ site \in DOMAIN SITE_ACTION_TEMPLATES
  /\ difficulty \in DOMAIN SITE_ACTION_TEMPLATES[site]

\* C22: generate asks the text-generation service for a task only if the catalog has
\* no template for the (site, difficulty) pair; when it has templates for the pair and
\* existing_tasks uses all of them, generate does not go on to the service.
C22_ModelOnlyWithoutTemplates ==
  (call.op = "generate" /\ "ret" \in DOMAIN call) =>
    ( "llm" \in Elems(call.stages) => ~HasTemplates(call.site, call.target_difficulty) )

\* the template's description is among those of the existing tasks of the site, case
\* set aside
Present(template, site, existing_tasks) ==
  \E t \in Elems(existing_tasks) :
    t.site = site /\ lower(t.description) = lower(template.task)

\* C23: a task the exact-template stage returns for (site, d) has a description that
\* differs, case set aside, from the description of every existing task of that site,
\* and d expected actions; when every template of the bucket is present among the
\* existing tasks the stage returns None.
C23_TemplateStageFresh ==
  (call.op = "_generate_from_template" /\ "ret" \in DOMAIN call) =>
    /\ call.ret.kind = "object" =>
         /\ \A t \in Elems(call.existing_tasks) :
              t.site = call.site =>
                lower(t.description) # lower(call.ret.obj.description)
         /\ Len(call.ret.obj.expected_actions) = call.target_difficulty
    /\ ( /\ HasTemplates(call.site, call.target_difficulty)
         /\ \A template \in Elems(SITE_ACTION_TEMPLATES[call.site][call.target_difficulty]) :
              Present(template, call.site, call.existing_tasks) ) =>
         call.ret = ReturnNone

\* C23 happens: with one of the two templates of a bucket held, the stage returned
\* the other one
C23_Witness ==
  /\ call.op = "_generate_from_template"
  /\ "ret" \in DOMAIN call
  /\ call.ret.kind = "object"
  /\ \E t \in Elems(call.existing_tasks) : t.site = call.site
  /\ Len(SITE_ACTION_TEMPLATES[call.site][call.target_difficulty]) = 2

\* C23 happens, the exhausted bucket: every template held in lower case between
\* blanks, and the stage returned None
C23_WitnessExhausted ==
  /\ call.op = "_generate_from_template"
  /\ "ret" \in DOMAIN call
  /\ call.ret = ReturnNone
  /\ HasTemplates(call.site, call.target_difficulty)
  /\ \E t \in Elems(call.existing_tasks) :
       t.site = call.site /\ t.description # lower(strip(t.description))

\* the float is 0.0
IsZero(r) == r.num = 0

\* the float is 1.0
IsOne(r) == r.num = r.den /\ r.decay = 0

\* r1 <= r2, established from the factors: the fraction of r1 is not larger and its
\* decay is not smaller (exp is decreasing in the decay)
Leq(r1, r2) ==
  \/ IsZero(r1)
  \/ r1.num * r2.den <= r2.num * r1.den /\ r1.decay >= r2.decay

\* C24: compute returns exactly 0 whenever success is false, whatever the action
\* counts, the inference-call counts and the baselines are, zeros included.
C24_FailureYieldsZero ==
  (call.op = "compute" /\ "ret" \in DOMAIN call /\ ~call.success) =>
    call.ret = Float(0, 1, 0)

\* C24 happens: a failed episode that met both baselines got 0
C24_Witness ==
  /\ call.op = "compute"
  /\ "ret" \in DOMAIN call
  /\ ~call.success
  /\ call.actual_actions = call.min_actions
  /\ call.actual_actions > 0
  /\ call.actual_inference_calls = call.expected_inference_calls
  /\ call.actual_inference_calls > 0
  /\ IsZero(call.ret)

\* C25: with success true and min_actions, expected_inference_calls and
\* actual_inference_calls fixed, the reward for actual_actions = a + 1 is never greater
\* than the reward for actual_actions = a, for every a >= 1.
C25_RewardMonotone ==
  (call.op = "compute" /\ "ret" \in DOMAIN call /\ call.success
     /\ call.actual_actions >= 1) =>
    Leq(compute(RewardConfig, TRUE, call.actual_actions + 1, call.actual_inference_calls,
                call.min_actions, call.expected_inference_calls),
        call.ret)

\* C25 happens: one action more than an episode that already exceeded min_actions
\* gives a strictly smaller reward
C25_Witness ==
  /\ call.op = "compute"
  /\ "ret" \in DOMAIN call
  /\ call.success
  /\ call.actual_actions > call.min_actions
  /\ call.min_actions >= 1
  /\ ~IsZero(call.ret)
  /\ ~Leq(call.ret,
          compute(RewardConfig, TRUE, call.actual_actions + 1, call.actual_inference_calls,
                  call.min_actions, call.expected_inference_calls))

\* C26: under the default RewardConfig a successful episode whose action count equals
\* min_actions (at least 1) and whose inference-call count is at least 1 and at most
\* the expected inference calls gets reward exactly 1.0; so does the episode that
\* reproduces the 2-action todo template in one inference call.
C26_PerfectEpisode ==
  (call.op = "compute" /\ "ret" \in DOMAIN call /\ call.success
     /\ call.actual_actions = call.min_actions /\ call.min_actions >= 1
     /\ call.actual_inference_calls >= 1
     /\ call.actual_inference_calls <= call.expected_inference_calls) =>
    IsOne(call.ret)

\* C26 happens: the 2-action todo template reproduced in one inference call
C26_Witness ==
  LET template == SITE_ACTION_TEMPLATES[<<"t","o","d","o">>][2][1]
      todo == TemplateTask(CHOOSE id \in UUIDs : TRUE, <<"t","o","d","o">>, 2, template).obj
  IN  /\ call.op = "compute"
      /\ "ret" \in DOMAIN call
      /\ call.success
      /\ call.min_actions = Len(template.actions)
      /\ call.actual_actions = 2
      /\ call.actual_inference_calls = 1
      /\ call.expected_inference_calls = expected_inference_calls(todo)
      /\ IsOne(call.ret)

\* C27: if env.reset fails at the start of an evaluation episode, the result has
\* status skipped, reward 0, zero actual actions and zero actual inference calls, and
\* the agent is never asked to predict.
C27_ResetFailureSkips ==
  (episode.pc \notin { "idle", "start" } /\ ~episode.seen.loaded) =>
    /\ episode.pc = "returned"
    /\ episode.ret.status = "skipped"
    /\ IsZero(episode.ret.reward)
    /\ episode.ret.actual_actions = 0
    /\ episode.ret.actual_inference_calls = 0
    /\ episode.seen.predicts = 0

\* C27 happens: the reset failed and the episode returned, the agent's counters
\* cleared
C27_Witness ==
  /\ episode.pc = "returned"
  /\ episode.seen.resets = 1
  /\ ~episode.seen.loaded
  /\ episode.ret.status = "skipped"
  /\ episode.agent.inference_calls = 0

\* C28: inside an episode, an element-not-found error on one predicted action skips
\* that action only: it is not counted in the actual actions and the next action of
\* the batch is the next one executed (the verifier follows the last); a page timeout
\* ends the episode at once with status failure and reward 0, the verifier is not
\* called and nothing is executed after the episode ended.  Every action of a batch
\* is handed to env.step in the order of the batch.
C28_StepErrors ==
  [][ /\ episode.pc \notin { "returned", "raised" }
      /\ episode.pc = "for" =>
           /\ episode'.seen.requested =
                Append(episode.seen.requested, episode.actions[episode.i])
           /\ episode'.seen.last = "ElementNotFoundError" =>
                /\ episode'.total_actions = episode.total_actions
                /\ episode'.action_history = episode.action_history
                /\ episode'.actions = episode.actions
                /\ IF episode.i < Len(episode.actions)
                   THEN episode'.pc = "for" /\ episode'.i = episode.i + 1
                   ELSE episode'.pc = "verify"
           /\ episode'.seen.last = "PageTimeoutError" =>
                /\ episode'.pc = "returned"
                /\ episode'.ret.status = "failure"
                /\ IsZero(episode'.ret.reward)
                /\ episode'.ret.actual_actions = episode.total_actions
                /\ episode'.seen.verifies = episode.seen.verifies ]_vars

\* C28 happens: of the two actions of the first batch the first was not found and the
\* second was executed and counted; the verifier is next
C28_Witness ==
  /\ episode.pc = "verify"
  /\ episode.agent.inference_calls = 1
  /\ Len(episode.actions) = 2
  /\ episode.seen.requested = episode.actions
  /\ episode.action_history = << episode.actions[2] >>
  /\ episode.total_actions = 1
  /\ episode.actions[1] # episode.actions[2]

\* C29: every evaluation episode terminates; the agent is asked to predict at most
\* expected inference calls + buffer times; an episode that used up the budget without
\* a verifier success, or in which the agent predicted nothing, ends with status
\* failure, reward 0 and a failure reason.
C29_EpisodeTerminates ==
  /\ <>(episode.pc \in { "returned", "raised" })
  /\ [](episode.pc # "idle" =>
          episode.seen.predicts
            <= expected_inference_calls(episode.task) + episode.buffer)
  /\ []( ( /\ episode.pc = "returned"
           /\ episode.seen.loaded
           /\ \/ episode.actions = <<>>
              \/ /\ episode.agent.inference_calls
                      = expected_inference_calls(episode.task) + episode.buffer
                 /\ ~episode.seen.verified ) =>
         /\ episode.ret.status = "failure"
         /\ IsZero(episode.ret.reward)
         /\ episode.ret.failure_reason # "None" )

\* C29 happens: every call of the budget was made and followed by a verifier that
\* said no, and the episode returned "Max iterations exceeded"
C29_Witness ==
  /\ episode.pc = "returned"
  /\ episode.buffer > 0
  /\ episode.agent.inference_calls
       = expected_inference_calls(episode.task) + episode.buffer
  /\ episode.seen.verifies = episode.agent.inference_calls
  /\ ~episode.seen.verified
  /\ episode.ret.failure_reason = "Max iterations exceeded"

\* the fields of an AggregatedResults
AggregatedFields ==
  { "difficulty", "num_episodes", "success_rate", "avg_actual_actions", "avg_min_actions",
    "avg_inference_calls", "avg_expected_calls", "avg_multi_step_tokens",
    "avg_single_step_tokens", "token_reduction_percent", "avg_reward" }

\* an AggregatedResults with no episode and every rate and mean 0
AllZero(a) ==
  /\ a.num_episodes = 0
  /\ \A f \in AggregatedFields \ { "difficulty", "num_episodes" } : a[f] = Float(0, 1, 0)

\* an AggregatedResults of the difficulty whose token reduction is 0 if its mean
\* baseline tokens are 0
WellAggregated(a, difficulty) ==
  /\ DOMAIN a = AggregatedFields
  /\ a.difficulty = difficulty
  /\ a.avg_single_step_tokens.num = 0 => a.token_reduction_percent = Float(0, 1, 0)

\* C30: aggregation is total: run returns an AggregatedResults for every configured
\* difficulty, also for one whose bucket is empty or absent from the pool; an empty
\* bucket aggregates to num_episodes = 0 with every rate and mean 0; the token
\* reduction is 0 whenever the mean baseline tokens are 0.
C30_AggregationTotal ==
  /\ (call.op = "run" /\ "ret" \in DOMAIN call) =>
       /\ DOMAIN call.ret = Elems(call.difficulties)
       /\ \A d \in Elems(call.difficulties) :
            /\ WellAggregated(call.ret[d], d)
            /\ Get(pool, d, <<>>) = <<>> => AllZero(call.ret[d])
  /\ (call.op = "_aggregate" /\ "ret" \in DOMAIN call) =>
       /\ WellAggregated(call.ret, call.difficulty)
       /\ call.results = <<>> => AllZero(call.ret)

\* C30 happens: run returned for a configuration that names a difficulty absent from
\* the pool and a difficulty with tasks
C30_Witness ==
  /\ call.op = "run"
  /\ "ret" \in DOMAIN call
  /\ \E d \in Elems(call.difficulties) :
       d \notin DOMAIN pool /\ call.ret[d].num_episodes = 0
  /\ \E d \in Elems(call.difficulties) : call.ret[d].num_episodes > 0

\* C30 happens, the baseline: results whose baseline tokens are all 0 aggregated to a
\* token reduction of 0 although tokens were used
C30_WitnessZeroBaseline ==
  /\ call.op = "_aggregate"
  /\ "ret" \in DOMAIN call
  /\ call.ret.num_episodes > 0
  /\ call.ret.avg_single_step_tokens.num = 0
  /\ call.ret.avg_multi_step_tokens.num > 0
  /\ call.ret.token_reduction_percent = Float(0, 1, 0)

\* C31: in build_pool a candidate whose normalized key is in the seen set is skipped
\* without any oracle call (the environment is not reset, the generation service is
\* not asked to validate) and still counts as one attempt; a candidate is handed to
\* the oracle only if its key is not in the seen set, and then with a step budget of
\* exactly 2 * difficulty; the oracle works only on such a candidate.
C31_SeenSkippedBeforeOracle ==
  [][ /\ (pc = "while" /\ pc' # "for") =>
           /\ attempts' = attempts + 1
           /\ pc' = "while" =>
                /\ env' = NoEnv
                /\ opc' = "idle"
                /\ result' = NoResult
           /\ pc' = "validating" =>
                /\ normalize_task(task') \notin seen_keys
                /\ max_steps' = 2 * args.difficulties[di]
                /\ env' = NoEnv
      /\ env' # env =>
           /\ pc = "validating"
           /\ normalize_task(task) \notin seen_keys
           /\ max_steps = 2 * args.difficulties[di] ]_vars

\* C31 happens: the candidate just generated has the key of a pooled task; it was
\* skipped, the attempt was counted and the oracle did nothing
C31_Witness ==
  /\ pc = "while"
  /\ task # NoTask
  /\ normalize_task(task) \in seen_keys
  /\ attempts >= 2
  /\ env = NoEnv
  /\ opc = "idle"

\* the hints a component of a combination contributes
HintsOf(component) == Elems(Get(component[2], "success_hints", <<>>))

\* C32: the success hints of a chained task hold no hint twice and number at most 4,
\* and a hint contributed by the final component is never dropped while a hint
\* contributed only by earlier components is kept.
C32_ChainedHintsKeepFinal ==
  (call.op = "_generate_by_chaining" /\ "combination" \in DOMAIN call) =>
    LET kept == call.unique_hints
        final == HintsOf(call.combination[Len(call.combination)])
    IN  /\ \A i, j \in DOMAIN kept : kept[i] = kept[j] => i = j
        /\ Len(kept) <= 4
        /\ \A h \in final :
             h \notin Elems(kept) => \A k \in Elems(kept) : k \in final

\* C33: in the catalog every template of bucket d of every site has exactly d actions;
\* so a template task has as many expected actions as its difficulty, and the actions
\* put together for a chained task are as many as the difficulties of its components
\* add up to.
C33_CatalogExactCounts ==
  /\ \A site \in DOMAIN SITE_ACTION_TEMPLATES :
       \A d \in DOMAIN SITE_ACTION_TEMPLATES[site] :
         \A template \in Elems(SITE_ACTION_TEMPLATES[site][d]) :
           Len(template.actions) = d
  /\ (call.op = "_generate_from_template" /\ "ret" \in DOMAIN call
        /\ call.ret.kind = "object") =>
       Len(call.ret.obj.expected_actions) = call.target_difficulty
  /\ (call.op = "_generate_by_chaining" /\ "combination" \in DOMAIN call) =>
       /\ Len(call.combined_actions) = SumDifficulties(call.combination)
       /\ Len(call.combined_actions) = call.target_difficulty

\* C33 happens: the actions of three components of different difficulties were put
\* together for a target that no bucket of the site has
C33_Witness ==
  /\ call.op = "_generate_by_chaining"
  /\ "combination" \in DOMAIN call
  /\ Len(call.combination) = 3
  /\ call.target_difficulty \notin DOMAIN SITE_ACTION_TEMPLATES[call.site]
  /\ call.combination[1][1] # call.combination[3][1]
  /\ Len(call.combined_actions) = call.target_difficulty

\* C34: the verifier is consulted exactly when a predicted batch that is not empty has
\* been gone through to its last action, skipped actions included, and never earlier;
\* an episode has status success only if the verifier call just made returned true,
\* and its reward is then compute(...) of the episode's own counts and the task's
\* min_actions and expected inference calls.
C34_VerifierAfterBatch ==
  [][ /\ episode'.pc = "verify" =>
           /\ episode.pc = "for"
           /\ episode'.actions # <<>>
           /\ episode'.seen.requested = episode'.actions
      /\ (episode.pc = "for" /\ episode.i = Len(episode.actions)
            /\ episode'.pc \notin { "returned", "raised" }) =>
           episode'.pc = "verify"
      /\ episode.pc = "verify" =>
           /\ episode'.seen.verifies = episode.seen.verifies + 1
           /\ episode'.seen.predicts = episode.seen.predicts
           /\ episode'.seen.requested = episode.seen.requested
      /\ (episode.pc \in { "start", "while", "for" }) =>
           episode'.seen.verifies = episode.seen.verifies
      /\ (episode'.pc = "returned" /\ episode'.ret.status = "success") =>
           /\ episode.pc = "verify"
           /\ episode'.seen.verified
           /\ episode'.ret.actual_actions = episode.total_actions
           /\ episode'.ret.actual_inference_calls = episode.agent.inference_calls
           /\ episode'.ret.reward =
                compute(RewardConfig, TRUE, episode.total_actions,
                        episode.agent.inference_calls, episode.task.min_actions,
                        expected_inference_calls(episode.task)) ]_vars

\* C34 happens: a batch of two actions, both skipped as not found, was followed by one
\* verifier call, which returned true
C34_Witness ==
  /\ episode.pc = "returned"
  /\ episode.ret.status = "success"
  /\ Len(episode.actions) = 2
  /\ episode.seen.requested = episode.actions
  /\ episode.seen.last = "ElementNotFoundError"
  /\ episode.total_actions = 0
  /\ episode.seen.verifies = 1

\* C35: an answer to the oracle that does not parse raises nothing: validate executes
\* no action for it, returns at once with valid false, and the call and its tokens are
\* in inference_calls and tokens_used; a plan of the agent that does not parse (predict
\* returns no action) ends the episode with status failure and no exception.
C35_MalformedIsSoftFailure ==
  [][ /\ (opc = "loop" /\ env'.calls = env.calls + 1 /\ env'.malformed) =>
           /\ opc' = "returned"
           /\ raised' = ""
           /\ actions_taken' = actions_taken
           /\ env'.steps = env.steps
           /\ ~result'.valid
           /\ result'.steps_taken = Len(actions_taken)
           /\ result'.inference_calls = inference_calls + 1
           /\ result'.tokens_used > total_tokens
           /\ result'.tokens_used = total_tokens'
      /\ opc = "returned" => env' = env
      /\ (episode.pc = "while"
            /\ episode'.seen.predicts = episode.seen.predicts + 1
            /\ episode'.agent.inference_calls = episode.agent.inference_calls + 1
            /\ episode'.actions = <<>>) =>
           /\ episode'.pc = "returned"
           /\ episode'.ret.status = "failure"
           /\ episode'.ret.actual_inference_calls = episode.agent.inference_calls + 1
           /\ episode'.seen.requested = <<>> ]_vars

\* C35 happens: after one executed action the second answer to the oracle did not
\* parse, and validate returned
C35_Witness ==
  /\ opc = "returned"
  /\ env.malformed
  /\ env.calls = 2
  /\ env.executed = 1
  /\ ~result.valid
  /\ result.inference_calls = 2

\* C36: sample, save, stats and an evaluation episode on a pooled task leave
\* self.pool as it was: the same difficulty keys in the same order and in every bucket
\* the same tasks in the same order with every field equal; what save leaves out as a
\* duplicate is left out of the stored record only.
C36_ReadOnlyOperations ==
  [][ call'.op \in { "sample", "save", "stats", "_run_episode" } =>
        /\ pool' = pool
        /\ pool_keys' = pool_keys ]_vars

\* C36 happens: save wrote a record with fewer tasks in a bucket than the pool has,
\* and the pool still has its duplicates
C36_Witness ==
  /\ call.op = "save"
  /\ ~NoDuplicateKeys(pool)
  /\ file # Absent /\ file # NotJson
  /\ \E i \in DOMAIN file.items :
       Len(file.items[i].value) < Len(pool[int(file.items[i].key).obj])

\* C37: a load that returns false leaves self.pool exactly as it was before the call,
\* whatever made it fail.
C37_FailedLoadKeepsPool ==
  [][ (call'.op = "load" /\ call'.ret = FALSE) =>
        /\ pool' = pool
        /\ pool_keys' = pool_keys ]_vars

\* C38: every OracleResult validate returns has
\* steps_taken <= inference_calls <= steps_taken + 1 and steps_taken <= max_steps; a
\* valid one has moreover steps_taken >= 1, inference_calls = steps_taken,
\* expected_steps <= steps_taken when expected_steps > 0, and difficulty_match true
\* exactly when expected_steps = 0 or steps_taken = expected_steps.
C38_ResultShape ==
  opc = "returned" =>
    /\ result.steps_taken <= result.inference_calls
    /\ result.inference_calls <= result.steps_taken + 1
    /\ result.steps_taken <= max_steps
    /\ result.valid =>
         /\ result.steps_taken >= 1
         /\ result.inference_calls = result.steps_taken
         /\ result.expected_steps > 0 => result.expected_steps <= result.steps_taken
         /\ result.difficulty_match <=>
              (result.expected_steps = 0 \/ result.steps_taken = result.expected_steps)

\* C38 happens: a valid result with more steps than the task's expected actions
C38_Witness ==
  /\ opc = "returned"
  /\ result.valid
  /\ result.expected_steps > 0
  /\ result.steps_taken > result.expected_steps
  /\ ~result.difficulty_match

\* C39: build_pool never grows a bucket beyond tasks_per_difficulty: a bucket gets a
\* task only while it holds fewer than tasks_per_difficulty, one at a time, so after
\* the call it has at most max(its size before, tasks_per_difficulty); and for a bucket
\* that holds tasks_per_difficulty tasks or more the loop is left with no task
\* generated and the oracle not called.
C39_BucketNeverOvergrown ==
  [][ /\ \A d \in DOMAIN pool' :
           IF d \in DOMAIN pool
           THEN Len(pool'[d]) # Len(pool[d]) =>
                  /\ d = args.difficulties[di]
                  /\ Len(pool[d]) < args.tasks_per_difficulty
                  /\ Len(pool'[d]) = Len(pool[d]) + 1
           ELSE pool'[d] = <<>>
      /\ (pc = "while"
            /\ Len(pool[args.difficulties[di]]) >= args.tasks_per_difficulty) =>
           /\ pc' = "for"
           /\ attempts' = attempts
           /\ pool' = pool
           /\ env' = env
           /\ opc' = opc
           /\ result' = result ]_vars

\* C39 happens: the loop of a bucket that held more tasks than the call asked for was
\* left without an attempt
C39_Witness ==
  /\ pc = "for"
  /\ di > 1
  /\ attempts = 0
  /\ Len(pool[args.difficulties[di - 1]]) > args.tasks_per_difficulty

====
